---- MODULE Spec2Model ----
(***************************************************************************)
(* Office attendance tracker: role based access to attendance records,     *)
(* time-boxed delegations, office capacity and the administrative reset.   *)
(*                                                                         *)
(* Instants are whole hours since a Monday 00:00 UTC; a calendar date      *)
(* ("YYYY-MM-DD") is a day number, day 0 being that Monday.  A request is  *)
(* identified by the address in its x-user-email header; the seeded user u *)
(* is registered under the address u.  A route                             *)
(* handler runs one step per awaited store call: the step performs the     *)
(* call and the code that follows it up to the next awaited call, and      *)
(* other requests run between the steps.  HTTP outcomes are the status     *)
(* codes the handlers return.                                               *)
(***************************************************************************)
EXTENDS Integers, FiniteSets, Sequences, TLC

VARIABLES
    users,        \* user table: id -> [role, chapterLeadId, email]
    attendance,   \* attendance_records table: set of rows
    delegations,  \* delegations table: set of rows
    capacity,     \* office_capacity table: set of rows
    now,          \* the clock (new Date())
    last,         \* the last request answered and its response
    pc,           \* per worker: the request in progress and the call it awaits
    lastWrite     \* history: per (userId, date) the status of the write that committed last

vars == <<users, attendance, delegations, capacity, now, last, pc, lastWrite>>

---------------------------------------------------------------------------
\* Bounds of the model

\* the clock runs over the hours 0..12 * MaxTime
MaxTime == 3
\* attendance rows held at once
MaxRecords == 2
\* delegation rows held at once
MaxDelegations == 2
\* office bookings of one day in the occupancy figures
MaxBooked == 24

---------------------------------------------------------------------------
\* Values

NoUser == "null"          \* a null user reference / an unresolved principal
NoNotes == "null"         \* notes: null (a body's null, the column's NULL)
Omitted == "undefined"    \* an optional field left out of the request
Null == "null"            \* a body's null, a column's NULL
Malformed == "not-a-uuid" \* an id that is no UUID
\* a date left out of the request
NoDate == -1
\* no row id
NoId == 0

UserIds == {"t1", "c1", "r1", "r2"}
Ghost == "ghost"          \* a well-formed id that names no user
AnyId == UserIds \cup {Ghost}

Roles == {"REPORTER", "CHAPTER_LEAD", "TRIBE_LEAD"}

\* createAttendanceSchema / updateAttendanceSchema / getAttendanceQuerySchema
\* status enum
SelfStatuses == {"office", "remote", "absent", "vacation"}
\* allocateSchema status enum
AllocateStatuses == {"office", "remote", "off"}

\* one Tribe Lead, one Chapter Lead with one direct report, one reporter
\* without a Chapter Lead; user u is registered under the address u and the
\* name u, with no avatar
InitUsers ==
    [u \in UserIds |->
        [role |-> CASE u = "t1" -> "TRIBE_LEAD"
                    [] u = "c1" -> "CHAPTER_LEAD"
                    [] u \in {"r1", "r2"} -> "REPORTER",
         chapterLeadId |-> IF u = "r1" THEN "c1" ELSE NoUser,
         email |-> u, name |-> u, avatarUrl |-> Null]]

\* the time zones the server process may run in (hours east of UTC)
Zones == {-5, 0, 2}

Workers == {"w1", "w2"}

---------------------------------------------------------------------------
\* Dates

\* new Date("YYYY-MM-DD"): midnight UTC of the day
ParseDate(d) == 24 * d

\* toISOString().split("T")[0]: the UTC day of an instant
IsoDate(t) == t \div 24

\* getFullYear / getMonth / getDate: the day of an instant in the server's zone
LocalDate(t, tz) == (t + tz) \div 24

\* new Date(year, month, date), setHours(0, 0, 0, 0): midnight of a day in the
\* server's zone
LocalMidnight(day, tz) == 24 * day - tz

\* setHours(23, 59, 59, 999): the last instant of a day in the server's zone
LocalDayEnd(day, tz) == 24 * day - tz + 23

\* Date.getDay() of a day: 0 is Sunday; day 0 is a Monday
getDay(day) == (day + 1) % 7

---------------------------------------------------------------------------
\* Authentication helper

\* the User object a handler holds: the row as it was read
UserRow(id) ==
    [id |-> id, role |-> users[id].role, chapterLeadId |-> users[id].chapterLeadId]

\* a null User
NullUser == [id |-> NoUser, role |-> "null", chapterLeadId |-> NoUser]

\* prisma.user.findUnique({where: {email}}): the ids of the rows found
FindByEmail(email) == {u \in DOMAIN users : users[u].email = email}

\* getUserFromRequest: the user registered under the address of the
\* x-user-email header, or null
getUserFromRequest(actor) ==
    IF FindByEmail(actor) = {} THEN NullUser
    ELSE UserRow(CHOOSE u \in FindByEmail(actor) : TRUE)

---------------------------------------------------------------------------
\* Permission utilities

isReporter(user) == user.role = "REPORTER"

isChapterLead(user) == user.role = "CHAPTER_LEAD"

isTribeLead(user) == user.role = "TRIBE_LEAD"

\* mutant: a Chapter Lead may allocate for anyone
canAllocateAttendance_AnyLead(allocator, targetUserId) ==
    \/ allocator.id = targetUserId
    \/ isTribeLead(allocator)
    \/ isChapterLead(allocator)

\* targetUser?.chapterLeadId === allocator.id for a Chapter Lead, on the row
\* read from the user table
canAllocateAttendance(allocator, targetUserId) ==
    IF allocator.id = targetUserId THEN TRUE
    ELSE IF isTribeLead(allocator) THEN TRUE
    ELSE IF isChapterLead(allocator)
         THEN /\ targetUserId \in DOMAIN users
              /\ users[targetUserId].chapterLeadId = allocator.id
    ELSE FALSE

canAccessUser(currentUser, targetUserId) ==
    IF currentUser.id = targetUserId THEN TRUE
    ELSE IF isTribeLead(currentUser) THEN TRUE
    ELSE IF isChapterLead(currentUser)
         THEN /\ targetUserId \in DOMAIN users
              /\ users[targetUserId].chapterLeadId = currentUser.id
    ELSE FALSE

\* mutant: a Chapter Lead sees only the direct reports, not itself
getAccessibleUserIds_NoSelf(currentUser) ==
    IF isTribeLead(currentUser) THEN DOMAIN users
    ELSE IF isChapterLead(currentUser)
         THEN {u \in DOMAIN users : users[u].chapterLeadId = currentUser.id}
    ELSE {currentUser.id}

\* the array returned, as a set
getAccessibleUserIds(currentUser) ==
    IF isTribeLead(currentUser) THEN DOMAIN users
    ELSE IF isChapterLead(currentUser)
         THEN {currentUser.id} \cup
              {u \in DOMAIN users : users[u].chapterLeadId = currentUser.id}
    ELSE {currentUser.id}

canViewAnalytics(user, scope) ==
    CASE scope = "self" -> TRUE
      [] scope = "team" -> isChapterLead(user) \/ isTribeLead(user)
      [] scope = "organization" -> isTribeLead(user)
      [] OTHER -> FALSE

---------------------------------------------------------------------------
\* Delegation registry

\* the window taken without its last instant
EffectiveDelegations_EndExclusive(userId, at) ==
    {d \in delegations : /\ d.delegateId = userId
                         /\ d.isActive
                         /\ d.startDate <= at
                         /\ d.endDate > at}

\* the where clause of GET /api/delegations/active
EffectiveDelegations(userId, at) ==
    {d \in delegations : /\ d.delegateId = userId
                         /\ d.isActive
                         /\ d.startDate <= at
                         /\ d.endDate >= at}

hasActiveDelegation(userId) == EffectiveDelegations(userId, now) # {}

\* ids of rows named by requests in progress are not handed out again (ids are
\* UUIDs)
HeldIds(ops) == {pc[w].rid : w \in {v \in Workers : pc[v].op \in ops}}

FreshDelegationId ==
    LET used == {d.id : d \in delegations} \cup HeldIds({"revoke"})
    IN  CHOOSE i \in 1..(MaxDelegations + Cardinality(Workers) + 1) :
            /\ i \notin used
            /\ \A j \in 1..(i - 1) : j \in used

\* mutant: the previous delegation of the delegate is left active
DeactivateFor_Skip(rows, delegateId) == rows

\* prisma.delegation.updateMany({where: {delegateId, isActive: true}, data: {isActive: false}})
DeactivateFor(rows, delegateId) ==
    {IF d.delegateId = delegateId /\ d.isActive
        THEN [d EXCEPT !.isActive = FALSE] ELSE d : d \in rows}

\* prisma.delegation.create
InsertDelegation(rows, id, delegatorId, delegateId, start, end) ==
    rows \cup {[id |-> id, delegatorId |-> delegatorId, delegateId |-> delegateId,
                startDate |-> start, endDate |-> end, isActive |-> TRUE]}

\* the row removed instead of kept inactive
DeactivateById_Remove(rows, id) == {d \in rows : d.id # id}

\* prisma.delegation.update({where: {id}, data: {isActive: false}})
DeactivateById(rows, id) ==
    {IF d.id = id THEN [d EXCEPT !.isActive = FALSE] ELSE d : d \in rows}

\* the delegate's rows with isActive = true
ActiveOf(delegateId) ==
    {d \in delegations : d.delegateId = delegateId /\ d.isActive}

\* the registry takes a new row only while it has room (model bound)
RegistryHasRoom == Cardinality(delegations) < MaxDelegations

---------------------------------------------------------------------------
\* Attendance ledger

\* notes: notes || null
NormNotes(notes) ==
    IF notes \in {Omitted, "", NoNotes} THEN NoNotes ELSE notes

FindByKey(rows, userId, date) ==
    {r \in rows : r.userId = userId /\ r.date = date}

FindById(rows, id) == {r \in rows : r.id = id}

FreshRecordId ==
    LET used == {r.id : r \in attendance}
                    \cup HeldIds({"byId", "patch", "delete",
                                  "legacyById", "legacyPatch", "legacyDelete"})
    IN  CHOOSE i \in 1..(MaxRecords + Cardinality(Workers) + 1) :
            /\ i \notin used
            /\ \A j \in 1..(i - 1) : j \in used

\* mutant: the upsert always takes its create branch
AttendanceUpsert_AlwaysCreate(rows, id, userId, date, status, notes) ==
    rows \cup {[id |-> id, userId |-> userId, date |-> date,
                status |-> status, notes |-> notes]}

\* mutant: the update branch writes the note but keeps the stored status
AttendanceUpsert_KeepStatus(rows, id, userId, date, status, notes) ==
    IF FindByKey(rows, userId, date) # {}
    THEN {IF r.userId = userId /\ r.date = date
             THEN [r EXCEPT !.notes = notes] ELSE r : r \in rows}
    ELSE rows \cup {[id |-> id, userId |-> userId, date |-> date,
                     status |-> status, notes |-> notes]}

\* mutant: the update branch appends the note to the stored one
AttendanceUpsert_AppendNote(rows, id, userId, date, status, notes) ==
    IF FindByKey(rows, userId, date) # {}
    THEN {IF r.userId = userId /\ r.date = date
             THEN [r EXCEPT !.status = status,
                            !.notes = IF r.notes = notes THEN "nn" ELSE notes]
             ELSE r : r \in rows}
    ELSE rows \cup {[id |-> id, userId |-> userId, date |-> date,
                     status |-> status, notes |-> notes]}

\* an office write dropped once a Monday (day 0) holds as many office records
\* as the capacity configured for Mondays
AttendanceUpsert_CapacityGate(rows, id, userId, date, status, notes) ==
    IF /\ status = "office" /\ date = 0
       /\ \E c \in capacity :
             /\ c.dayOfWeek = "Monday"
             /\ Cardinality({r \in rows : r.date = date /\ r.status = "office"
                                          /\ r.userId # userId}) >= c.capacity
    THEN rows
    ELSE IF FindByKey(rows, userId, date) # {}
    THEN {IF r.userId = userId /\ r.date = date
             THEN [r EXCEPT !.status = status, !.notes = notes]
             ELSE r : r \in rows}
    ELSE rows \cup {[id |-> id, userId |-> userId, date |-> date,
                     status |-> status, notes |-> notes]}

\* prisma.attendanceRecord.upsert({where: {userId_date}, update, create});
\* id is the id a created row gets
AttendanceUpsert(rows, id, userId, date, status, notes) ==
    IF FindByKey(rows, userId, date) # {}
    THEN {IF r.userId = userId /\ r.date = date
             THEN [r EXCEPT !.status = status, !.notes = notes]
             ELSE r : r \in rows}
    ELSE rows \cup {[id |-> id, userId |-> userId, date |-> date,
                     status |-> status, notes |-> notes]}

\* prisma.attendanceRecord.update({where: {id}, data}): data holds the fields
\* the body gave
AttendanceUpdate(rows, id, status, notes) ==
    {IF r.id = id
        THEN [r EXCEPT !.status = IF status = Omitted THEN @ ELSE status,
                       !.notes = IF notes = Omitted THEN @ ELSE notes]
        ELSE r : r \in rows}

\* prisma.attendanceRecord.delete({where: {id}})
AttendanceDelete(rows, id) == {r \in rows : r.id # id}

\* the history of committed status writes
NoteWrite(hist, userId, date, status) ==
    {h \in hist : ~(h.userId = userId /\ h.date = date)}
        \cup {[userId |-> userId, date |-> date, status |-> status]}

ForgetWrite(hist, userId, date) ==
    {h \in hist : ~(h.userId = userId /\ h.date = date)}

\* the upsert creates a row only while the ledger has room (model bound)
HasRoom(userId, date) ==
    \/ FindByKey(attendance, userId, date) # {}
    \/ Cardinality(attendance) < MaxRecords

---------------------------------------------------------------------------
\* Requests in progress and responses

\* a worker that serves no request; the fields are what a handler holds across
\* its awaits: the User read by getUserFromRequest, the request's parameters
\* and the rows, ids and counts read so far.  `wrote`: whether the request has
\* changed a table
Idle ==
    [at |-> "idle", op |-> "none", actor |-> NoUser, user |-> NullUser,
     target |-> NoUser, rid |-> NoId, startDate |-> NoDate, endDate |-> NoDate,
     status |-> Omitted, notes |-> Omitted, lead |-> Omitted,
     email |-> Omitted, avatarUrl |-> Omitted, num |-> 0,
     zone |-> 0, ids |-> {}, rows |-> {}, nums |-> <<>>, wrote |-> FALSE]

\* the response to request q.  `delegated`: whether the principal held a
\* currently effective delegation when the request was answered; `found`: the
\* stored rows the request located, as they were read; `role`: the role on
\* the User the handler held
Response(q, code, body) ==
    [op |-> q.op, actor |-> q.actor, role |-> q.user.role, target |-> q.target,
     rid |-> q.rid, date |-> q.startDate, endDate |-> q.endDate,
     status |-> q.status, notes |-> q.notes, chapterLeadId |-> q.lead,
     email |-> q.email,
     num |-> q.num, zone |-> q.zone, code |-> code, body |-> body,
     delegated |-> q.user.id \in DOMAIN users /\ hasActiveDelegation(q.user.id),
     found |-> q.rows, userIds |-> q.ids, wrote |-> q.wrote]

NoRequest == Response(Idle, 0, {})

\* the handler returns: apiResponse / apiError
Return(w, q, code, body) ==
    /\ last' = Response(q, code, body)
    /\ pc' = [pc EXCEPT ![w] = Idle]

\* the handler is suspended at its next awaited call
Await(w, q, call) ==
    /\ pc' = [pc EXCEPT ![w] = [q EXCEPT !.at = call]]
    /\ UNCHANGED last

\* the first step of a handler: 0 stands for no early return
Enter(w, q, code, call) ==
    /\ pc[w].at = "idle"
    /\ IF code = 0 THEN Await(w, q, call) ELSE Return(w, q, code, {})

---------------------------------------------------------------------------
\* POST /api/attendance (self-service upsert)

\* createAttendanceSchema.safeParse(body).success
createAttendanceSchema(userId, date, status, notes) ==
    /\ userId \notin {Omitted, Malformed}   \* z.string().uuid()
    /\ date # NoDate                        \* a string that Date.parse reads
    /\ status \in SelfStatuses
    /\ notes # NoNotes                      \* z.string().optional(): no null

\* the early returns without the schema validation of the body
PostAttendanceCode_NoSchema(user, userId, date, status, notes) ==
    IF user = NullUser THEN 401 ELSE 0

\* the early returns before canAllocateAttendance is awaited (0: none)
PostAttendanceCode(user, userId, date, status, notes) ==
    IF user = NullUser THEN 401
    ELSE IF ~createAttendanceSchema(userId, date, status, notes) THEN 400
    ELSE 0

\* await getUserFromRequest, request.json(), safeParse
PostAttendance(w, actor, userId, date, status, notes) ==
    LET user == getUserFromRequest(actor)
        q == [Idle EXCEPT !.op = "upsert", !.actor = actor, !.user = user,
                          !.target = userId, !.startDate = date,
                          !.status = status, !.notes = notes]
    IN  /\ Enter(w, q, PostAttendanceCode(user, userId, date, status, notes),
                 "PostAttendanceCanAllocate")
        /\ UNCHANGED <<users, attendance, delegations, capacity, now, lastWrite>>

\* await canAllocateAttendance(user, userId)
PostAttendanceCanAllocate(w) ==
    LET q == pc[w]
    IN  /\ q.at = "PostAttendanceCanAllocate"
        /\ IF canAllocateAttendance(q.user, q.target)
           THEN Await(w, q, "PostAttendanceUpsert")
           ELSE Return(w, q, 403, {})
        /\ UNCHANGED <<users, attendance, delegations, capacity, now, lastWrite>>

\* await prisma.attendanceRecord.upsert and the response; the upsert of a row
\* whose user does not exist violates the foreign key and is answered 500.
\* The row's date, new Date("YYYY-MM-DD"), is kept as the day number
Upsert(w, call) ==
    LET q == pc[w]
        date == q.startDate
        ok == q.target \in DOMAIN users
        found == FindByKey(attendance, q.target, date)
        rows == AttendanceUpsert(attendance, FreshRecordId, q.target, date,
                                 q.status, NormNotes(q.notes))
    IN  /\ q.at = call
        /\ ok => HasRoom(q.target, date)
        /\ attendance' = IF ok THEN rows ELSE attendance
        /\ lastWrite' = IF ok THEN NoteWrite(lastWrite, q.target, date, q.status)
                        ELSE lastWrite
        /\ Return(w, [q EXCEPT !.rows = IF ok THEN found ELSE {},
                               !.wrote = ok /\ rows # attendance],
                  IF ok THEN 201 ELSE 500,
                  IF ok THEN FindByKey(rows, q.target, date) ELSE {})
        /\ UNCHANGED <<users, delegations, capacity, now>>

PostAttendanceUpsert(w) == Upsert(w, "PostAttendanceUpsert")

---------------------------------------------------------------------------
\* POST /api/attendance/allocate (allocate for others)

\* allocateSchema.safeParse(body).success
allocateSchema(userId, date, status, notes) ==
    /\ userId \notin {Omitted, Malformed}   \* z.string().uuid()
    /\ date # NoDate                        \* YYYY-MM-DD
    /\ status \in AllocateStatuses
    /\ notes # NoNotes                      \* z.string().optional(): no null

\* the early returns without the refusal of self-allocation
AllocateCode_SelfAllowed(user, userId, date, status, notes) ==
    IF user = NullUser THEN 401
    ELSE IF user.role = "REPORTER" THEN 403
    ELSE IF ~allocateSchema(userId, date, status, notes) THEN 400
    ELSE 0

\* the early returns before canAllocateAttendance is awaited (0: none)
AllocateCode(user, userId, date, status, notes) ==
    IF user = NullUser THEN 401
    ELSE IF user.role = "REPORTER" THEN 403
    ELSE IF ~allocateSchema(userId, date, status, notes) THEN 400
    ELSE IF userId = user.id THEN 400
    ELSE 0

\* await getUserFromRequest, request.json(), safeParse, the self check
AllocateAttendance(w, actor, userId, date, status, notes) ==
    LET user == getUserFromRequest(actor)
        q == [Idle EXCEPT !.op = "allocate", !.actor = actor, !.user = user,
                          !.target = userId, !.startDate = date,
                          !.status = status, !.notes = notes]
    IN  /\ Enter(w, q, AllocateCode(user, userId, date, status, notes),
                 "AllocateCanAllocate")
        /\ UNCHANGED <<users, attendance, delegations, capacity, now, lastWrite>>

\* await canAllocateAttendance(user, userId)
AllocateCanAllocate(w) ==
    LET q == pc[w]
    IN  /\ q.at = "AllocateCanAllocate"
        /\ IF canAllocateAttendance(q.user, q.target)
           THEN Await(w, q, "AllocateFindUnique")
           ELSE Return(w, q, 403, {})
        /\ UNCHANGED <<users, attendance, delegations, capacity, now, lastWrite>>

\* await prisma.user.findUnique({where: {id: userId}})
AllocateFindUnique(w) ==
    LET q == pc[w]
    IN  /\ q.at = "AllocateFindUnique"
        /\ IF q.target \notin DOMAIN users THEN Return(w, q, 404, {})
           ELSE IF q.user.role = "CHAPTER_LEAD"
                THEN Await(w, q, "AllocateFindFirst")
                ELSE Await(w, q, "AllocateUpsert")
        /\ UNCHANGED <<users, attendance, delegations, capacity, now, lastWrite>>

\* await prisma.user.findFirst({where: {id: userId, chapterLeadId: user.id}})
AllocateFindFirst(w) ==
    LET q == pc[w]
        isDirectReport == /\ q.target \in DOMAIN users
                          /\ users[q.target].chapterLeadId = q.user.id
    IN  /\ q.at = "AllocateFindFirst"
        /\ IF isDirectReport THEN Await(w, q, "AllocateUpsert")
                             ELSE Return(w, q, 403, {})
        /\ UNCHANGED <<users, attendance, delegations, capacity, now, lastWrite>>

AllocateUpsert(w) == Upsert(w, "AllocateUpsert")

---------------------------------------------------------------------------
\* GET /api/attendance (list with filters)

\* getAttendanceQuerySchema.safeParse(query).success
getAttendanceQuerySchema(userId, startDate, endDate, status) ==
    /\ userId # Malformed                   \* z.string().uuid().optional()
    /\ status \in SelfStatuses \cup {Omitted}

\* the where clause handed to findMany
AttendanceWhere(r, accessibleUserIds, userId, startDate, endDate, status) ==
    /\ IF userId # Omitted THEN r.userId = userId
                          ELSE r.userId \in accessibleUserIds
    /\ startDate # NoDate => ParseDate(r.date) >= ParseDate(startDate)
    /\ endDate # NoDate => ParseDate(r.date) <= ParseDate(endDate)
    /\ status # Omitted => r.status = status

\* await getUserFromRequest, safeParse of the query
GetAttendance(w, actor, userId, startDate, endDate, status) ==
    LET user == getUserFromRequest(actor)
        q == [Idle EXCEPT !.op = "list", !.actor = actor, !.user = user,
                          !.target = userId, !.startDate = startDate,
                          !.endDate = endDate, !.status = status]
        code == IF user = NullUser THEN 401
                ELSE IF ~getAttendanceQuerySchema(userId, startDate, endDate, status)
                     THEN 400
                ELSE 0
    IN  /\ Enter(w, q, code, "GetAttendanceAccessible")
        /\ UNCHANGED <<users, attendance, delegations, capacity, now, lastWrite>>

\* await getAccessibleUserIds(user), the check of the userId asked for
GetAttendanceAccessible(w) ==
    LET q == pc[w]
        accessibleUserIds == getAccessibleUserIds(q.user)
    IN  /\ q.at = "GetAttendanceAccessible"
        /\ IF q.target # Omitted /\ q.target \notin accessibleUserIds
           THEN Return(w, [q EXCEPT !.ids = accessibleUserIds], 403, {})
           ELSE Await(w, [q EXCEPT !.ids = accessibleUserIds], "GetAttendanceFindMany")
        /\ UNCHANGED <<users, attendance, delegations, capacity, now, lastWrite>>

\* await prisma.attendanceRecord.findMany({where}) and the response
GetAttendanceFindMany(w) ==
    LET q == pc[w]
    IN  /\ q.at = "GetAttendanceFindMany"
        /\ Return(w, q, 200,
                  {r \in attendance :
                      AttendanceWhere(r, q.ids, q.target, q.startDate, q.endDate,
                                      q.status)})
        /\ UNCHANGED <<users, attendance, delegations, capacity, now, lastWrite>>

---------------------------------------------------------------------------
\* GET /api/attendance/week

\* no week parameter
NoWeek == 0

\* Monday of the week of the day `today`
CurrentWeekStart(today) ==
    LET dayOfWeek == getDay(today)
        diff == IF dayOfWeek = 0 THEN -6 ELSE 1 - dayOfWeek
    IN  today + diff

\* "YYYY-Www": the first day of the year plus (week - 1) * 7 days
ParamWeekStart(firstDayOfYear, week) == firstDayOfYear + (week - 1) * 7

\* startDate of the query: midnight, in the server's zone, of the first day
WeekStartDate(tz, firstDayOfYear, week) ==
    IF week # NoWeek
    THEN LocalMidnight(ParamWeekStart(firstDayOfYear, week), tz)
    ELSE LocalMidnight(CurrentWeekStart(LocalDate(now, tz)), tz)

\* endDate of the query: six days on; the week parameter leaves it at
\* midnight, the current week takes the day's last instant
WeekEndDate(tz, firstDayOfYear, week) ==
    IF week # NoWeek
    THEN LocalMidnight(ParamWeekStart(firstDayOfYear, week) + 6, tz)
    ELSE LocalDayEnd(CurrentWeekStart(LocalDate(now, tz)) + 6, tz)

\* await getUserFromRequest, the week's window; tz is the server's zone,
\* firstDayOfYear the day number of January 1 of the year asked for
GetWeek(w, actor, tz, firstDayOfYear, week) ==
    LET user == getUserFromRequest(actor)
        q == [Idle EXCEPT !.op = "week", !.actor = actor, !.user = user,
                          !.zone = tz, !.num = week,
                          !.startDate = WeekStartDate(tz, firstDayOfYear, week),
                          !.endDate = WeekEndDate(tz, firstDayOfYear, week)]
    IN  /\ Enter(w, q, IF user = NullUser THEN 401 ELSE 0, "GetWeekFindMany")
        /\ UNCHANGED <<users, attendance, delegations, capacity, now, lastWrite>>

\* await prisma.attendanceRecord.findMany and the response: the records and
\* the window's two ends as ISO dates
GetWeekFindMany(w) ==
    LET q == pc[w]
        records == {r \in attendance : /\ ParseDate(r.date) >= q.startDate
                                       /\ ParseDate(r.date) <= q.endDate}
    IN  /\ q.at = "GetWeekFindMany"
        /\ Return(w, [q EXCEPT !.startDate = IsoDate(q.startDate),
                               !.endDate = IsoDate(q.endDate),
                               !.rows = records], 200, records)
        /\ UNCHANGED <<users, attendance, delegations, capacity, now, lastWrite>>

---------------------------------------------------------------------------
\* GET /api/attendance/[id]

\* await getUserFromRequest
GetAttendanceById(w, actor, id) ==
    LET user == getUserFromRequest(actor)
        q == [Idle EXCEPT !.op = "byId", !.actor = actor, !.user = user, !.rid = id]
    IN  /\ Enter(w, q, IF user = NullUser THEN 401 ELSE 0,
                 "GetAttendanceByIdFindUnique")
        /\ UNCHANGED <<users, attendance, delegations, capacity, now, lastWrite>>

\* await prisma.attendanceRecord.findUnique({where: {id}}) and the response
GetAttendanceByIdFindUnique(w) ==
    LET q == pc[w]
        record == FindById(attendance, q.rid)
    IN  /\ q.at = "GetAttendanceByIdFindUnique"
        /\ IF record = {} THEN Return(w, q, 404, {})
                          ELSE Return(w, [q EXCEPT !.rows = record], 200, record)
        /\ UNCHANGED <<users, attendance, delegations, capacity, now, lastWrite>>

---------------------------------------------------------------------------
\* PATCH /api/attendance/[id] and DELETE /api/attendance/[id]

\* updateAttendanceSchema.safeParse(body).success; notes may be a string, null
\* or left out
updateAttendanceSchema(status, notes) == status \in SelfStatuses \cup {Omitted}

\* the owner-or-Tribe-Lead check widened to the hierarchy rule
ModifyCode_Hierarchy(user, existingRecord) ==
    IF existingRecord = {} THEN 404
    ELSE IF \E r \in existingRecord : ~canAllocateAttendance(user, r.userId) THEN 403
    ELSE 0

\* the checks made on the row read by findUnique (0: none fails)
ModifyCode(user, existingRecord) ==
    IF existingRecord = {} THEN 404
    ELSE IF \E r \in existingRecord :
                r.userId # user.id /\ user.role # "TRIBE_LEAD" THEN 403
    ELSE 0

\* PATCH parses the body with updateAttendanceSchema after these checks
PatchCode(user, existingRecord, status, notes) ==
    IF ModifyCode(user, existingRecord) # 0 THEN ModifyCode(user, existingRecord)
    ELSE IF ~updateAttendanceSchema(status, notes) THEN 400
    ELSE 0

\* await getUserFromRequest
PatchAttendance(w, actor, id, status, notes) ==
    LET user == getUserFromRequest(actor)
        q == [Idle EXCEPT !.op = "patch", !.actor = actor, !.user = user,
                          !.rid = id, !.status = status, !.notes = notes]
    IN  /\ Enter(w, q, IF user = NullUser THEN 401 ELSE 0, "PatchAttendanceFindUnique")
        /\ UNCHANGED <<users, attendance, delegations, capacity, now, lastWrite>>

\* await prisma.attendanceRecord.findUnique, the owner check, safeParse
PatchAttendanceFindUnique(w) ==
    LET q == pc[w]
        existingRecord == FindById(attendance, q.rid)
        code == PatchCode(q.user, existingRecord, q.status, q.notes)
        r == [q EXCEPT !.rows = existingRecord]
    IN  /\ q.at = "PatchAttendanceFindUnique"
        /\ IF code = 0 THEN Await(w, r, "PatchAttendanceUpdate")
                       ELSE Return(w, r, code, {})
        /\ UNCHANGED <<users, attendance, delegations, capacity, now, lastWrite>>

\* await prisma.attendanceRecord.update and the response; the update of a row
\* that is gone throws and is answered 500
Update(w, call) ==
    LET q == pc[w]
        stored == FindById(attendance, q.rid)
        rows == AttendanceUpdate(attendance, q.rid, q.status, q.notes)
    IN  /\ q.at = call
        /\ attendance' = rows
        /\ lastWrite' = IF stored = {} \/ q.status = Omitted THEN lastWrite
                        ELSE LET r == CHOOSE x \in stored : TRUE
                             IN  NoteWrite(lastWrite, r.userId, r.date, q.status)
        /\ Return(w, [q EXCEPT !.wrote = rows # attendance],
                  IF stored = {} THEN 500 ELSE 200, FindById(rows, q.rid))
        /\ UNCHANGED <<users, delegations, capacity, now>>

PatchAttendanceUpdate(w) == Update(w, "PatchAttendanceUpdate")

\* await getUserFromRequest
DeleteAttendance(w, actor, id) ==
    LET user == getUserFromRequest(actor)
        q == [Idle EXCEPT !.op = "delete", !.actor = actor, !.user = user, !.rid = id]
    IN  /\ Enter(w, q, IF user = NullUser THEN 401 ELSE 0, "DeleteAttendanceFindUnique")
        /\ UNCHANGED <<users, attendance, delegations, capacity, now, lastWrite>>

\* await prisma.attendanceRecord.findUnique, the owner check
DeleteAttendanceFindUnique(w) ==
    LET q == pc[w]
        existingRecord == FindById(attendance, q.rid)
        code == ModifyCode(q.user, existingRecord)
        r == [q EXCEPT !.rows = existingRecord]
    IN  /\ q.at = "DeleteAttendanceFindUnique"
        /\ IF code = 0 THEN Await(w, r, "DeleteAttendanceDelete")
                       ELSE Return(w, r, code, {})
        /\ UNCHANGED <<users, attendance, delegations, capacity, now, lastWrite>>

\* await prisma.attendanceRecord.delete and the response; the delete of a row
\* that is gone throws and is answered 500
Delete(w, call) ==
    LET q == pc[w]
        stored == FindById(attendance, q.rid)
        rows == AttendanceDelete(attendance, q.rid)
    IN  /\ q.at = call
        /\ attendance' = rows
        /\ lastWrite' = IF stored = {} THEN lastWrite
                        ELSE LET r == CHOOSE x \in stored : TRUE
                             IN  ForgetWrite(lastWrite, r.userId, r.date)
        /\ Return(w, [q EXCEPT !.wrote = rows # attendance],
                  IF stored = {} THEN 500 ELSE 200, {})
        /\ UNCHANGED <<users, delegations, capacity, now>>

DeleteAttendanceDelete(w) == Delete(w, "DeleteAttendanceDelete")

---------------------------------------------------------------------------
\* POST /api/delegations and DELETE /api/delegations?id=

\* the checks without the comparison of the two dates
CreateDelegationCode_NoDateCheck(user, delegateId, startDate, endDate) ==
    IF user = NullUser THEN 401
    ELSE IF user.role # "TRIBE_LEAD" THEN 403
    ELSE IF delegateId = Omitted \/ startDate = NoDate \/ endDate = NoDate THEN 400
    ELSE 0

\* the early returns before the delegate is looked up (0: none)
CreateDelegationCode(user, delegateId, startDate, endDate) ==
    IF user = NullUser THEN 401
    ELSE IF user.role # "TRIBE_LEAD" THEN 403
    ELSE IF delegateId = Omitted \/ startDate = NoDate \/ endDate = NoDate THEN 400
    ELSE IF startDate >= endDate THEN 400
    ELSE 0

\* await getUserFromRequest, request.json(), the field and date checks
CreateDelegation(w, actor, delegateId, startDate, endDate) ==
    LET user == getUserFromRequest(actor)
        q == [Idle EXCEPT !.op = "createDelegation", !.actor = actor, !.user = user,
                          !.target = delegateId, !.startDate = startDate,
                          !.endDate = endDate]
    IN  /\ Enter(w, q, CreateDelegationCode(user, delegateId, startDate, endDate),
                 "CreateDelegationFindUnique")
        /\ UNCHANGED <<users, attendance, delegations, capacity, now, lastWrite>>

\* await prisma.user.findUnique({where: {id: delegateId}})
CreateDelegationFindUnique(w) ==
    LET q == pc[w]
    IN  /\ q.at = "CreateDelegationFindUnique"
        /\ IF q.target \in DOMAIN users
           THEN Await(w, q, "CreateDelegationUpdateMany")
           ELSE Return(w, q, 404, {})
        /\ UNCHANGED <<users, attendance, delegations, capacity, now, lastWrite>>

\* await prisma.delegation.updateMany: the delegate's active rows are
\* deactivated
CreateDelegationUpdateMany(w) ==
    LET q == pc[w]
        rows == DeactivateFor(delegations, q.target)
    IN  /\ q.at = "CreateDelegationUpdateMany"
        /\ delegations' = rows
        /\ Await(w, [q EXCEPT !.rows = ActiveOf(q.target),
                              !.wrote = rows # delegations],
                 "CreateDelegationCreate")
        /\ UNCHANGED <<users, attendance, capacity, now, lastWrite>>

\* await prisma.delegation.create and the response; a delegator or delegate
\* that is gone violates the foreign key and is answered 500
CreateDelegationCreate(w) ==
    LET q == pc[w]
        ok == q.user.id \in DOMAIN users /\ q.target \in DOMAIN users
        id == FreshDelegationId
        rows == InsertDelegation(delegations, id, q.user.id, q.target,
                                 q.startDate, q.endDate)
    IN  /\ q.at = "CreateDelegationCreate"
        /\ ok => RegistryHasRoom
        /\ delegations' = IF ok THEN rows ELSE delegations
        /\ Return(w, [q EXCEPT !.rid = IF ok THEN id ELSE NoId,
                               !.wrote = q.wrote \/ ok],
                  IF ok THEN 201 ELSE 500,
                  IF ok THEN {d \in rows : d.id = id} ELSE {})
        /\ UNCHANGED <<users, attendance, capacity, now, lastWrite>>

\* await getUserFromRequest, the id of the query string
RevokeDelegation(w, actor, id) ==
    LET user == getUserFromRequest(actor)
        q == [Idle EXCEPT !.op = "revoke", !.actor = actor, !.user = user, !.rid = id]
        code == IF user = NullUser THEN 401
                ELSE IF user.role # "TRIBE_LEAD" THEN 403
                ELSE IF id = NoId THEN 400
                ELSE 0
    IN  /\ Enter(w, q, code, "RevokeDelegationUpdate")
        /\ UNCHANGED <<users, attendance, delegations, capacity, now, lastWrite>>

\* await prisma.delegation.update and the response; the update of a row that
\* does not exist throws and is answered 500
RevokeDelegationUpdate(w) ==
    LET q == pc[w]
        stored == {d \in delegations : d.id = q.rid}
        rows == DeactivateById(delegations, q.rid)
    IN  /\ q.at = "RevokeDelegationUpdate"
        /\ delegations' = IF stored # {} THEN rows ELSE delegations
        /\ Return(w, [q EXCEPT !.rows = stored,
                               !.wrote = stored # {} /\ rows # delegations],
                  IF stored # {} THEN 200 ELSE 500,
                  IF stored # {} THEN {d \in rows : d.id = q.rid} ELSE {})
        /\ UNCHANGED <<users, attendance, capacity, now, lastWrite>>

---------------------------------------------------------------------------
\* GET /api/delegations/active

\* await getUserFromRequest, const now = new Date(); startDate: the instant read
GetActiveDelegation(w, actor) ==
    LET user == getUserFromRequest(actor)
        q == [Idle EXCEPT !.op = "activeDelegation", !.actor = actor, !.user = user,
                          !.startDate = now]
    IN  /\ Enter(w, q, IF user = NullUser THEN 401 ELSE 0,
                 "GetActiveDelegationFindFirst")
        /\ UNCHANGED <<users, attendance, delegations, capacity, now, lastWrite>>

\* await prisma.delegation.findFirst and the response; findFirst returns one
\* of the matching rows
GetActiveDelegationFindFirst(w) ==
    LET q == pc[w]
        rows == EffectiveDelegations(q.user.id, q.startDate)
    IN  /\ q.at = "GetActiveDelegationFindFirst"
        /\ \E activeDelegation \in IF rows = {} THEN {"null"} ELSE rows :
              Return(w, [q EXCEPT !.rows = rows], 200,
                     [hasActiveDelegation |-> rows # {},
                      delegation |-> activeDelegation])
        /\ UNCHANGED <<users, attendance, delegations, capacity, now, lastWrite>>

---------------------------------------------------------------------------
\* POST /api/admin/reset-statistics

\* the reset opened to whoever holds a currently effective delegation
ResetCode_Delegable(user) ==
    IF user = NullUser THEN 401
    ELSE IF user.role # "TRIBE_LEAD" /\ ~hasActiveDelegation(user.id) THEN 403
    ELSE 0

\* the early returns before the transaction (0: none)
ResetCode(user) ==
    IF user = NullUser THEN 401
    ELSE IF user.role # "TRIBE_LEAD" THEN 403
    ELSE 0

\* await getUserFromRequest
ResetStatistics(w, actor) ==
    LET user == getUserFromRequest(actor)
        q == [Idle EXCEPT !.op = "reset", !.actor = actor, !.user = user]
    IN  /\ Enter(w, q, ResetCode(user), "ResetStatisticsTransaction")
        /\ UNCHANGED <<users, attendance, delegations, capacity, now, lastWrite>>

\* the deleteMany of the capacity rows left out of the transaction
ResetStatisticsTransaction_KeepCapacity(w) ==
    LET q == pc[w]
    IN  /\ q.at = "ResetStatisticsTransaction"
        /\ attendance' = {}
        /\ delegations' = {}
        /\ lastWrite' = {}
        /\ Return(w, [q EXCEPT !.wrote = TRUE], 200, {})
        /\ UNCHANGED <<users, capacity, now>>

\* await prisma.$transaction([attendanceRecord.deleteMany, delegation.deleteMany,
\* officeCapacity.deleteMany]) and the response
ResetStatisticsTransaction(w) ==
    LET q == pc[w]
    IN  /\ q.at = "ResetStatisticsTransaction"
        /\ attendance' = {}
        /\ delegations' = {}
        /\ capacity' = {}
        /\ lastWrite' = {}
        /\ Return(w, [q EXCEPT !.wrote = TRUE], 200, {})
        /\ UNCHANGED <<users, now>>

---------------------------------------------------------------------------
\* PUT /api/office-capacity

validDays == {"Monday", "Tuesday", "Wednesday", "Thursday", "Friday"}

\* the next row id of the office_capacity table
NextCapacityId(rows) ==
    IF rows = {} THEN 1
    ELSE 1 + (CHOOSE i \in {c.id : c \in rows} : \A c \in rows : c.id <= i)

\* prisma.officeCapacity.upsert({where: {dayOfWeek}, update: {capacity},
\* create: {dayOfWeek, capacity}})
CapacityUpsert(rows, dayOfWeek, cap) ==
    IF \E c \in rows : c.dayOfWeek = dayOfWeek
    THEN {IF c.dayOfWeek = dayOfWeek THEN [c EXCEPT !.capacity = cap] ELSE c :
            c \in rows}
    ELSE rows \cup {[id |-> NextCapacityId(rows), dayOfWeek |-> dayOfWeek,
                     capacity |-> cap]}

\* await getUserFromRequest, request.json(), the checks of the body
PutCapacity(w, actor, dayOfWeek, cap) ==
    LET user == getUserFromRequest(actor)
        q == [Idle EXCEPT !.op = "putCapacity", !.actor = actor, !.user = user,
                          !.target = dayOfWeek, !.num = cap]
        code == IF user = NullUser THEN 401
                ELSE IF user.role # "TRIBE_LEAD" THEN 403
                ELSE IF dayOfWeek = Omitted THEN 400
                ELSE IF dayOfWeek \notin validDays THEN 400
                ELSE IF cap < 0 THEN 400
                ELSE 0
    IN  /\ Enter(w, q, code, "PutCapacityUpsert")
        /\ UNCHANGED <<users, attendance, delegations, capacity, now, lastWrite>>

\* await prisma.officeCapacity.upsert and the response
PutCapacityUpsert(w) ==
    LET q == pc[w]
        rows == CapacityUpsert(capacity, q.target, q.num)
    IN  /\ q.at = "PutCapacityUpsert"
        /\ capacity' = rows
        /\ Return(w, [q EXCEPT !.wrote = rows # capacity], 200,
                  {c \in rows : c.dayOfWeek = q.target})
        /\ UNCHANGED <<users, attendance, delegations, now, lastWrite>>

---------------------------------------------------------------------------
\* GET /api/users (list of the users the caller can access)

\* await getUserFromRequest
GetUsers(w, actor) ==
    LET user == getUserFromRequest(actor)
        q == [Idle EXCEPT !.op = "users", !.actor = actor, !.user = user]
    IN  /\ Enter(w, q, IF user = NullUser THEN 401 ELSE 0, "GetUsersAccessible")
        /\ UNCHANGED <<users, attendance, delegations, capacity, now, lastWrite>>

\* await getAccessibleUserIds(user)
GetUsersAccessible(w) ==
    LET q == pc[w]
    IN  /\ q.at = "GetUsersAccessible"
        /\ Await(w, [q EXCEPT !.ids = getAccessibleUserIds(q.user)], "GetUsersFindMany")
        /\ UNCHANGED <<users, attendance, delegations, capacity, now, lastWrite>>

\* await prisma.user.findMany({where: {id: {in: accessibleUserIds}}})
GetUsersFindMany(w) ==
    LET q == pc[w]
    IN  /\ q.at = "GetUsersFindMany"
        /\ Return(w, q, 200, {u \in DOMAIN users : u \in q.ids})
        /\ UNCHANGED <<users, attendance, delegations, capacity, now, lastWrite>>

---------------------------------------------------------------------------
\* GET /api/analytics/occupancy, /overview, /weekly-pattern

AnalyticsCode(user) ==
    IF user = NullUser THEN 401
    ELSE IF ~canViewAnalytics(user, "team") THEN 403
    ELSE 0

\* days the occupancy and overview windows reach back by default
DefaultDays == 30
\* days the weekly pattern window reaches back by default
PatternDays == 90

AnalyticsDays(op) == IF op = "weeklyPattern" THEN PatternDays ELSE DefaultDays

\* startDate: the parameter, or midnight (server's zone) `days` days back
WindowStartOf(startDateParam, days, tz) ==
    IF startDateParam # NoDate THEN ParseDate(startDateParam)
    ELSE LocalMidnight(LocalDate(now, tz) - days, tz)

\* endDate: the parameter, or the last instant of today (server's zone)
WindowEndOf(endDateParam, tz) ==
    IF endDateParam # NoDate THEN ParseDate(endDateParam)
    ELSE LocalDayEnd(LocalDate(now, tz), tz)

\* Math.round(num / den) for num >= 0, den > 0, where the quotient is far from
\* a half or exactly representable (denominators below 40)
Round(num, den) == (2 * num + den) \div (2 * den)

\* floor(log2(b / c)) for b > 0, c > 0: the binary exponent of the quotient
RECURSIVE Log2Floor(_, _)
Log2Floor(b, c) ==
    IF b >= 2 * c THEN 1 + Log2Floor(b, 2 * c)
    ELSE IF b < c THEN Log2Floor(2 * b, c) - 1
    ELSE 0

RECURSIVE Pow2(_)
Pow2(n) == IF n = 0 THEN 1 ELSE 2 * Pow2(n - 1)

\* 2^e modulo m
RECURSIVE PowMod2(_, _)
PowMod2(e, m) == IF e = 0 THEN 1 % m ELSE (2 * PowMod2(e - 1, m)) % m

\* Math.round((part / total) * 100), part >= 0, total > 0, in IEEE-754 double
\* arithmetic: the quotient is rounded to 53 significant bits (nearest, ties to
\* even), the product by 100 is rounded again, and Math.round takes the nearest
\* integer, halves upwards. The result is the exact rounding of
\* 100 * part / total unless that value lies exactly halfway between two
\* integers; then the sign and size of the quotient's rounding error decide:
\*   d = m * total - part * 2^e is the error of the 53-bit quotient m (e = 52
\*   minus the quotient's binary exponent g), scaled by total; the product
\*   falls short of the half by 100 * |d| / (total * 2^e), and it is rounded
\*   back up to the half unless that exceeds half a unit in the last place of
\*   the product, which is the case when 100 * |d| > 32 * total and the product
\*   lies in the binade g + 6 (100 * part < 128 * total * 2^g).
RoundPercent(part, total) ==
    LET exact == (200 * part + total) \div (2 * total)
        halfway == (200 * part) % (2 * total) = total
        g == Log2Floor(part, total)
        e == 52 - g
        rem2 == ((part % (2 * total)) * PowMod2(e, 2 * total)) % (2 * total)
        r == rem2 % total
        floorIsOdd == rem2 \div total = 1
        roundsDown == 2 * r < total \/ (2 * r = total /\ ~floorIsOdd)
        d == IF roundsDown THEN 0 - r ELSE total - r
        lowBinade == IF g <= 0 THEN 100 * part * Pow2(0 - g) < 128 * total
                               ELSE 100 * part < 128 * total * Pow2(g)
    IN  IF part = 0 THEN 0
        ELSE IF ~halfway THEN exact
        ELSE IF d < 0 /\ lowBinade /\ 100 * (0 - d) > 32 * total THEN exact - 1
        ELSE exact

\* x > 0 ? Math.round((part / x) * 100) : 0
Percentage(part, total) == IF total > 0 THEN RoundPercent(part, total) ELSE 0

\* await getUserFromRequest, canViewAnalytics, the query parameters
AnalyticsEnter(w, op, actor, tz, userIdParam, chapterLeadIdParam, startDateParam, endDateParam) ==
    LET user == getUserFromRequest(actor)
        q == [Idle EXCEPT !.op = op, !.actor = actor, !.user = user, !.zone = tz,
                          !.target = userIdParam, !.lead = chapterLeadIdParam,
                          !.startDate = startDateParam, !.endDate = endDateParam]
    IN  /\ Enter(w, q, AnalyticsCode(user), "Accessible")
        /\ UNCHANGED <<users, attendance, delegations, capacity, now, lastWrite>>

\* the handler goes on to its findMany of attendance records: the clock is
\* read and the window fixed
AnalyticsWindow(q) ==
    [q EXCEPT !.startDate = WindowStartOf(q.startDate, AnalyticsDays(q.op), q.zone),
              !.endDate = WindowEndOf(q.endDate, q.zone)]

\* await getAccessibleUserIds(user) and the narrowing by the userId parameter
AnalyticsAccessible(w, op) ==
    LET q == pc[w]
        accessibleUserIds == getAccessibleUserIds(q.user)
    IN  /\ q.op = op
        /\ q.at = "Accessible"
        /\ IF q.target # Omitted /\ q.target \in accessibleUserIds
           THEN Await(w, AnalyticsWindow([q EXCEPT !.ids = {q.target}]), "FindMany")
           ELSE IF q.lead # Omitted
           THEN Await(w, [q EXCEPT !.ids = accessibleUserIds], "ChapterLeadUsers")
           ELSE Await(w, AnalyticsWindow([q EXCEPT !.ids = accessibleUserIds]),
                      "FindMany")
        /\ UNCHANGED <<users, attendance, delegations, capacity, now, lastWrite>>

\* await prisma.user.findMany({where: {chapterLeadId, id: {in: accessibleUserIds}}})
AnalyticsChapterLeadUsers(w, op) ==
    LET q == pc[w]
        chapterLeadUsers == {u \in DOMAIN users : /\ users[u].chapterLeadId = q.lead
                                                  /\ u \in q.ids}
    IN  /\ q.op = op
        /\ q.at = "ChapterLeadUsers"
        /\ Await(w, AnalyticsWindow([q EXCEPT !.ids = chapterLeadUsers]), "FindMany")
        /\ UNCHANGED <<users, attendance, delegations, capacity, now, lastWrite>>

\* await prisma.attendanceRecord.findMany and the response computed from it
AnalyticsFindMany(w, op, body) ==
    LET q == pc[w]
    IN  /\ q.op = op
        /\ q.at = "FindMany"
        /\ Return(w, q, 200, body)
        /\ UNCHANGED <<users, attendance, delegations, capacity, now, lastWrite>>

\* where: userId in accessibleUserIds, date in [startDate, endDate]
WindowRows(userIds, startDate, endDate) ==
    {r \in attendance : /\ r.userId \in userIds
                        /\ ParseDate(r.date) >= startDate
                        /\ ParseDate(r.date) <= endDate}

OfficeRows(userIds, startDate, endDate) ==
    {r \in WindowRows(userIds, startDate, endDate) : r.status = "office"}

\* filledData: one entry per day from startDate while currentDate <= endDate,
\* keyed by the ISO date; the count is that of the records of that ISO date
FilledData(rows, startDate, endDate) ==
    LET n == IF endDate < startDate THEN 0 ELSE (endDate - startDate) \div 24 + 1
    IN  [k \in 1..n |->
            LET dateKey == IsoDate(startDate + 24 * (k - 1))
            IN  [date |-> dateKey,
                 count |-> Cardinality({r \in rows : IsoDate(ParseDate(r.date)) = dateKey})]]

GetOccupancy(w, actor, tz, userIdParam, chapterLeadIdParam, startDateParam, endDateParam) ==
    AnalyticsEnter(w, "occupancy", actor, tz, userIdParam, chapterLeadIdParam, startDateParam, endDateParam)

GetOccupancyAccessible(w) == AnalyticsAccessible(w, "occupancy")

GetOccupancyChapterLeadUsers(w) == AnalyticsChapterLeadUsers(w, "occupancy")

GetOccupancyFindMany(w) ==
    LET q == pc[w]
    IN  AnalyticsFindMany(w, "occupancy",
            FilledData(OfficeRows(q.ids, q.startDate, q.endDate), q.startDate, q.endDate))

\* record.date.getDay(): the weekday of the record's instant in the server's zone
RecordDay(r, tz) == getDay(LocalDate(ParseDate(r.date), tz))

\* Mon, Tue, Wed, Thu, Fri, Sat, Sun as getDay numbers
weekOrder == <<1, 2, 3, 4, 5, 6, 0>>

WeeklyPattern(rows, tz) ==
    [i \in 1..7 |-> Cardinality({r \in rows : RecordDay(r, tz) = weekOrder[i]})]

GetWeeklyPattern(w, actor, tz, userIdParam, chapterLeadIdParam, startDateParam, endDateParam) ==
    AnalyticsEnter(w, "weeklyPattern", actor, tz, userIdParam, chapterLeadIdParam, startDateParam, endDateParam)

GetWeeklyPatternAccessible(w) == AnalyticsAccessible(w, "weeklyPattern")

GetWeeklyPatternChapterLeadUsers(w) == AnalyticsChapterLeadUsers(w, "weeklyPattern")

GetWeeklyPatternFindMany(w) ==
    LET q == pc[w]
    IN  AnalyticsFindMany(w, "weeklyPattern",
            WeeklyPattern(OfficeRows(q.ids, q.startDate, q.endDate), q.zone))

\* the keys of dayOfWeekCounts in the overview, in insertion order
overviewDays ==
    <<"Monday", "Tuesday", "Wednesday", "Thursday", "Friday", "Saturday", "Sunday">>

\* the reduce over Monday..Sunday keeps the later day on a tie
mostPopularDayOf(officeRecords, tz) ==
    LET count(i) == Cardinality({r \in officeRecords : RecordDay(r, tz) = weekOrder[i]})
        best == CHOOSE i \in 1..7 :
                    /\ \A j \in 1..7 : count(j) <= count(i)
                    /\ \A j \in (i + 1)..7 : count(j) < count(i)
    IN  IF officeRecords = {} THEN "None" ELSE overviewDays[best]

Overview(user, userIds, recentAttendance, tz) ==
    LET totalUsers == Cardinality(userIds)
        workingDayRecords == {r \in recentAttendance :
                                RecordDay(r, tz) >= 1 /\ RecordDay(r, tz) <= 5}
        officeRecords == {r \in workingDayRecords : r.status = "office"}
        remoteRecords == {r \in workingDayRecords : r.status = "remote"}
        absentRecords == {r \in workingDayRecords :
                            r.status \in {"absent", "vacation"}}
        totalRecords == Cardinality(workingDayRecords)
        uniqueDates == Cardinality({r.date : r \in workingDayRecords})
    IN  [totalUsers |-> totalUsers,
         averageOccupancy |->
            IF uniqueDates > 0
            THEN Round(100 * Cardinality(officeRecords), uniqueDates * totalUsers)
            ELSE 0,
         mostPopularDay |-> mostPopularDayOf(officeRecords, tz),
         remoteWorkRate |-> Percentage(Cardinality(remoteRecords), totalRecords),
         scope |-> IF user.role = "TRIBE_LEAD" THEN "organization" ELSE "team",
         statusDistribution |->
            [office |-> Percentage(Cardinality(officeRecords), totalRecords),
             remote |-> Percentage(Cardinality(remoteRecords), totalRecords),
             absent |-> Percentage(Cardinality(absentRecords), totalRecords)]]

GetOverview(w, actor, tz, userIdParam, chapterLeadIdParam, startDateParam, endDateParam) ==
    AnalyticsEnter(w, "overview", actor, tz, userIdParam, chapterLeadIdParam, startDateParam, endDateParam)

GetOverviewAccessible(w) == AnalyticsAccessible(w, "overview")

GetOverviewChapterLeadUsers(w) == AnalyticsChapterLeadUsers(w, "overview")

GetOverviewFindMany(w) ==
    LET q == pc[w]
    IN  AnalyticsFindMany(w, "overview",
            Overview(q.user, q.ids, WindowRows(q.ids, q.startDate, q.endDate), q.zone))

---------------------------------------------------------------------------
\* GET /api/office-capacity

dayNames == <<"Monday", "Tuesday", "Wednesday", "Thursday", "Friday">>

defaultCapacities ==
    <<[dayOfWeek |-> "Monday", capacity |-> 20],
      [dayOfWeek |-> "Tuesday", capacity |-> 10],
      [dayOfWeek |-> "Wednesday", capacity |-> 50],
      [dayOfWeek |-> "Thursday", capacity |-> 20],
      [dayOfWeek |-> "Friday", capacity |-> 50]>>

\* the rows added by createMany, one per element of data
CreatedCapacities(rows, data) ==
    {[id |-> NextCapacityId(rows) + i - 1, dayOfWeek |-> data[i].dayOfWeek,
      capacity |-> data[i].capacity] : i \in 1..Len(data)}

\* createMany on a table without the unique key on dayOfWeek
CreateManyThrows_NoUnique(rows, data) == FALSE

\* prisma.officeCapacity.createMany({data}) is one insert statement; dayOfWeek
\* is the table's unique key (the where of the upsert), so a day already stored
\* makes the statement fail with nothing inserted
CreateManyThrows(rows, data) ==
    \E i \in 1..Len(data), c \in rows : c.dayOfWeek = data[i].dayOfWeek

CreateManyCapacity(rows, data) == rows \cup CreatedCapacities(rows, data)

\* the view opened to whoever holds a currently effective delegation
CapacityCode_Delegable(user) ==
    IF user = NullUser THEN 401
    ELSE IF /\ user.role \notin {"CHAPTER_LEAD", "TRIBE_LEAD"}
            /\ ~hasActiveDelegation(user.id) THEN 403
    ELSE 0

\* the early returns before the settings are read (0: none)
CapacityCode(user) ==
    IF user = NullUser THEN 401
    ELSE IF user.role \notin {"CHAPTER_LEAD", "TRIBE_LEAD"} THEN 403
    ELSE 0

\* Monday of the week of the day `today`, shifted by weekOffset weeks
CapacityMonday(today, weekOffset) ==
    LET dayOfWeek == getDay(today)
        mondayOffset == IF dayOfWeek = 0 THEN -6 ELSE 1 - dayOfWeek
    IN  today + mondayOffset + weekOffset * 7

\* capacitySettings.find(...)?.capacity || 0
CapacityOfDay(capacitySettings, day) ==
    IF \E c \in capacitySettings : c.dayOfWeek = day
    THEN (CHOOSE c \in capacitySettings : c.dayOfWeek = day).capacity
    ELSE 0

\* prisma.attendanceRecord.count({where: {date: {gte: dayStart, lte: dayEnd},
\* status: "office"}}): the day's two ends are taken in the server's zone
CountBookings(currentDate, tz) ==
    Cardinality({r \in attendance : /\ ParseDate(r.date) >= LocalMidnight(currentDate, tz)
                                    /\ ParseDate(r.date) <= LocalDayEnd(currentDate, tz)
                                    /\ r.status = "office"})

\* one entry of weekData
DayData(capacitySettings, monday, i, bookings) ==
    LET cap == CapacityOfDay(capacitySettings, dayNames[i])
        available == cap - bookings
    IN  [day |-> dayNames[i],
         date |-> monday + i - 1,
         capacity |-> cap,
         booked |-> bookings,
         available |-> IF available > 0 THEN available ELSE 0,
         isOverbooked |-> bookings > cap,
         utilizationPercent |-> IF cap > 0 THEN RoundPercent(bookings, cap) ELSE 0]

\* the five entries of weekData, Monday to Friday
WeekData(capacitySettings, monday, counts) ==
    [i \in 1..5 |-> DayData(capacitySettings, monday, i, counts[i])]

\* await getUserFromRequest, the role check, Monday of the week asked for
GetCapacity(w, actor, tz, weekOffset) ==
    LET user == getUserFromRequest(actor)
        q == [Idle EXCEPT !.op = "getCapacity", !.actor = actor, !.user = user,
                          !.zone = tz, !.num = weekOffset,
                          !.startDate = CapacityMonday(LocalDate(now, tz), weekOffset)]
    IN  /\ Enter(w, q, CapacityCode(user), "GetCapacityFindMany")
        /\ UNCHANGED <<users, attendance, delegations, capacity, now, lastWrite>>

\* await prisma.officeCapacity.findMany()
GetCapacityFindMany(w) ==
    LET q == pc[w]
    IN  /\ q.at = "GetCapacityFindMany"
        /\ IF capacity = {} THEN Await(w, q, "GetCapacityCreateMany")
                            ELSE Await(w, [q EXCEPT !.rows = capacity], "GetCapacityCount")
        /\ UNCHANGED <<users, attendance, delegations, capacity, now, lastWrite>>

\* await prisma.officeCapacity.createMany of the defaults; a failed insert is
\* caught and answered 500
GetCapacityCreateMany(w) ==
    LET q == pc[w]
    IN  /\ q.at = "GetCapacityCreateMany"
        /\ IF CreateManyThrows(capacity, defaultCapacities)
           THEN /\ Return(w, q, 500, {})
                /\ UNCHANGED capacity
           ELSE /\ capacity' = CreateManyCapacity(capacity, defaultCapacities)
                /\ Await(w, [q EXCEPT !.wrote = TRUE], "GetCapacityFindManyAgain")
        /\ UNCHANGED <<users, attendance, delegations, now, lastWrite>>

\* await prisma.officeCapacity.findMany() after the defaults were created
GetCapacityFindManyAgain(w) ==
    LET q == pc[w]
    IN  /\ q.at = "GetCapacityFindManyAgain"
        /\ Await(w, [q EXCEPT !.rows = capacity], "GetCapacityCount")
        /\ UNCHANGED <<users, attendance, delegations, capacity, now, lastWrite>>

\* await prisma.attendanceRecord.count for the next of the five days; the
\* fifth count is followed by the response
GetCapacityCount(w) ==
    LET q == pc[w]
        i == Len(q.nums) + 1
        counts == Append(q.nums, CountBookings(q.startDate + i - 1, q.zone))
    IN  /\ q.at = "GetCapacityCount"
        /\ IF i < Len(dayNames)
           THEN Await(w, [q EXCEPT !.nums = counts], "GetCapacityCount")
           ELSE Return(w, [q EXCEPT !.nums = counts], 200,
                       [weekData |-> WeekData(q.rows, q.startDate, counts),
                        capacitySettings |-> q.rows])
        /\ UNCHANGED <<users, attendance, delegations, capacity, now, lastWrite>>

---------------------------------------------------------------------------
\* PATCH and DELETE /api/users/[id]

\* the role values the request schemas accept
SchemaRoles == {"user", "admin"}
NewUser == "n1"

\* the role column of the user table.  The handlers compare roles with the
\* members of the UserRole enumeration of @prisma/client, while
\* scripts/create-admin.ts creates a user with role "admin" and the
\* session-based handlers compare roles with "admin" (README.md: role is a
\* String "user" | "admin"): the column either takes the three members only or
\* takes the two older values as well
RoleColumns == {"UserRole", "UserRoleAndLegacy"}

\* prisma.user.update({data: {role}}): whether the column takes the value
UserStoreAccepts(column, role) ==
    \/ role = Omitted
    \/ role \in Roles
    \/ column = "UserRoleAndLegacy" /\ role \in SchemaRoles

\* strings that are no email address and no URL
BadEmail == "not-an-email"
BadUrl == "not-a-url"

\* updateUserSchema: name, email, avatarUrl and role are the known keys, each
\* optional, avatarUrl nullable.  Among the strings of the model the empty
\* string and BadEmail are no email address, the empty string and BadUrl no
\* URL
UpdateUserValid(body) ==
    /\ body.name \notin {Null, ""}                       \* z.string().min(1)
    /\ body.email \notin {Null, "", BadEmail}            \* z.string().email()
    /\ body.avatarUrl \notin {"", BadUrl}                \* z.string().url(), nullable
    /\ body.role = Omitted \/ body.role \in SchemaRoles  \* z.enum(["user", "admin"])

\* the parsed body: keys the schema does not name are stripped
UpdateUserData(body) ==
    [role |-> body.role, chapterLeadId |-> Omitted, name |-> body.name,
     email |-> body.email, avatarUrl |-> body.avatarUrl]

\* the early returns before the update (0: none)
PatchUserCode(user, id, body) ==
    IF user = NullUser THEN 401
    ELSE IF user.id # id /\ user.role # "TRIBE_LEAD" THEN 403
    ELSE IF ~UpdateUserValid(body) THEN 400
    ELSE IF /\ (UpdateUserData(body).role # Omitted
                  \/ UpdateUserData(body).chapterLeadId # Omitted)
            /\ user.role # "TRIBE_LEAD" THEN 403
    ELSE 0

\* prisma.user.update: the keys of data that are present replace the columns
UserUpdate(rows, id, data) ==
    [rows EXCEPT ![id] =
        [role |-> IF data.role = Omitted THEN @.role ELSE data.role,
         chapterLeadId |-> IF data.chapterLeadId = Omitted THEN @.chapterLeadId
                           ELSE data.chapterLeadId,
         email |-> IF data.email = Omitted THEN @.email ELSE data.email,
         name |-> IF data.name = Omitted THEN @.name ELSE data.name,
         avatarUrl |-> IF data.avatarUrl = Omitted THEN @.avatarUrl
                       ELSE data.avatarUrl]]

\* the unique index on email: another row holds the address the data carries
EmailTaken(rows, id, data) ==
    /\ data.email # Omitted
    /\ \E u \in DOMAIN rows \ {id} : rows[u].email = data.email

\* the body a PATCH request carried
BodyOf(q) ==
    [role |-> q.status, chapterLeadId |-> q.lead, name |-> q.notes,
     email |-> q.email, avatarUrl |-> q.avatarUrl]

\* await getUserFromRequest, params, request.json(), updateUserSchema.safeParse
PatchUser(w, actor, id, body) ==
    LET user == getUserFromRequest(actor)
        q == [Idle EXCEPT !.op = "patchUser", !.actor = actor, !.user = user,
                          !.target = id, !.status = body.role,
                          !.lead = body.chapterLeadId, !.notes = body.name,
                          !.email = body.email, !.avatarUrl = body.avatarUrl]
    IN  /\ Enter(w, q, PatchUserCode(user, id, body), "PatchUserUpdate")
        /\ UNCHANGED <<users, attendance, delegations, capacity, now, lastWrite>>

\* await prisma.user.update and the response: a role the column does not take
\* makes update throw (500), a missing row is P2025 (404), an email another
\* row holds violates the unique index (500)
UpdateUser(w, call, column) ==
    LET q == pc[w]
        data == UpdateUserData(BodyOf(q))
        code == IF ~UserStoreAccepts(column, data.role) THEN 500
                ELSE IF q.target \notin DOMAIN users THEN 404
                ELSE IF EmailTaken(users, q.target, data) THEN 500
                ELSE 200
        rows == IF code = 200 THEN UserUpdate(users, q.target, data) ELSE users
    IN  /\ q.at = call
        /\ users' = rows
        /\ Return(w, [q EXCEPT !.wrote = rows # users], code, {})
        /\ UNCHANGED <<attendance, delegations, capacity, now, lastWrite>>

PatchUserUpdate(w) ==
    \E column \in RoleColumns : UpdateUser(w, "PatchUserUpdate", column)

\* the actions a relation of the Prisma schema may name for the deletion of
\* the row it references
ReferentialActions == {"Cascade", "Restrict", "NoAction", "SetNull", "SetDefault"}

\* the rows a deletion of id removes from the user table: id and, when the
\* chapterLead relation cascades, the users below it
RECURSIVE Removed(_, _, _)
Removed(rows, ids, onDelete) ==
    LET reports == {u \in DOMAIN rows : rows[u].chapterLeadId \in ids}
    IN  IF onDelete # "Cascade" \/ reports \subseteq ids THEN ids
        ELSE Removed(rows, ids \cup reports, onDelete)

\* attendance records and delegations that reference one of ids
UserIsReferenced(ids) ==
    \/ \E r \in attendance : r.userId \in ids
    \/ \E d \in delegations : d.delegatorId \in ids \/ d.delegateId \in ids

\* prisma.user.delete: the removed rows go; SetNull and SetDefault (the column
\* chapterLeadId has no default but NULL) clear the links of the direct reports
UserDelete(rows, id, onDelete) ==
    [u \in DOMAIN rows \ Removed(rows, {id}, onDelete) |->
        IF rows[u].chapterLeadId = id
        THEN [rows[u] EXCEPT !.chapterLeadId = NoUser] ELSE rows[u]]

\* the early returns before the delete (0: none)
DeleteUserCode(user, id) ==
    IF user = NullUser THEN 401
    ELSE IF user.role # "TRIBE_LEAD" THEN 403
    ELSE IF user.id = id THEN 400
    ELSE 0

\* await getUserFromRequest, params.  onDelete and onDeleteOwned: the actions
\* of the chapterLead relation and of the relations of attendance records and
\* delegations to the user table in the schema the server was built with (the
\* columns userId, delegatorId and delegateId always hold an id, so their
\* relations cannot name SetNull)
DeleteUser(w, actor, id, onDelete, onDeleteOwned) ==
    LET user == getUserFromRequest(actor)
        q == [Idle EXCEPT !.op = "deleteUser", !.actor = actor, !.user = user,
                          !.target = id, !.status = onDelete,
                          !.notes = onDeleteOwned]
    IN  /\ Enter(w, q, DeleteUserCode(user, id), "DeleteUserDelete")
        /\ UNCHANGED <<users, attendance, delegations, capacity, now, lastWrite>>

\* await prisma.user.delete and the response: a missing row is P2025 (404);
\* delete throws (500) when a relation whose action is Restrict or NoAction
\* has a row that references a user the deletion removes
RemoveUser(w, call) ==
    LET q == pc[w]
        id == q.target
        gone == Removed(users, {id}, q.status)
        refused == {"Restrict", "NoAction"}
        throws == \/ q.status \in refused /\ \E u \in DOMAIN users :
                                                  users[u].chapterLeadId = id
                  \/ q.notes \in refused /\ UserIsReferenced(gone)
        code == IF id \notin DOMAIN users THEN 404
                ELSE IF throws THEN 500
                ELSE 200
    IN  /\ q.at = call
        /\ users' = IF code = 200 THEN UserDelete(users, id, q.status) ELSE users
        /\ attendance' = IF code = 200 THEN {r \in attendance : r.userId \notin gone}
                         ELSE attendance
        /\ delegations' = IF code = 200
                          THEN {d \in delegations :
                                   d.delegatorId \notin gone /\ d.delegateId \notin gone}
                          ELSE delegations
        /\ lastWrite' = IF code = 200 THEN {x \in lastWrite : x.userId \notin gone}
                        ELSE lastWrite
        /\ Return(w, [q EXCEPT !.wrote = code = 200], code, {})
        /\ UNCHANGED <<capacity, now>>

DeleteUserDelete(w) == RemoveUser(w, "DeleteUserDelete")

---------------------------------------------------------------------------
\* GET /api/users/[id]

\* await getUserFromRequest, params
GetUserById(w, actor, id) ==
    LET user == getUserFromRequest(actor)
        q == [Idle EXCEPT !.op = "userById", !.actor = actor, !.user = user,
                          !.target = id]
    IN  /\ Enter(w, q, IF user = NullUser THEN 401 ELSE 0, "GetUserByIdCanAccess")
        /\ UNCHANGED <<users, attendance, delegations, capacity, now, lastWrite>>

\* await canAccessUser(currentUser, id)
GetUserByIdCanAccess(w) ==
    LET q == pc[w]
    IN  /\ q.at = "GetUserByIdCanAccess"
        /\ IF canAccessUser(q.user, q.target)
           THEN Await(w, q, "GetUserByIdFindUnique")
           ELSE Return(w, q, 403, {})
        /\ UNCHANGED <<users, attendance, delegations, capacity, now, lastWrite>>

\* await prisma.user.findUnique({where: {id}}) and the response
GetUserByIdFindUnique(w) ==
    LET q == pc[w]
    IN  /\ q.at = "GetUserByIdFindUnique"
        /\ IF q.target \in DOMAIN users THEN Return(w, q, 200, {q.target})
                                        ELSE Return(w, q, 404, {})
        /\ UNCHANGED <<users, attendance, delegations, capacity, now, lastWrite>>

---------------------------------------------------------------------------
\* GET /api/users/me and GET /api/users as src/app/api/users/route.ts serves it

\* await getUserFromRequest
GetMe(w, actor) ==
    LET user == getUserFromRequest(actor)
        q == [Idle EXCEPT !.op = "me", !.actor = actor, !.user = user]
    IN  /\ Enter(w, q, IF user = NullUser THEN 401 ELSE 0, "GetMeFindUnique")
        /\ UNCHANGED <<users, attendance, delegations, capacity, now, lastWrite>>

\* await prisma.user.findUnique({where: {id: user.id}}) and the response
GetMeFindUnique(w) ==
    LET q == pc[w]
    IN  /\ q.at = "GetMeFindUnique"
        /\ IF q.user.id \in DOMAIN users THEN Return(w, q, 200, {q.user.id})
                                         ELSE Return(w, q, 404, {})
        /\ UNCHANGED <<users, attendance, delegations, capacity, now, lastWrite>>

\* the session check of this handler is commented out: every caller is
\* answered with the whole user table (await prisma.user.findMany)
GetAllUsers(w, actor) ==
    /\ pc[w].at = "idle"
    /\ Return(w, [Idle EXCEPT !.op = "allUsers", !.actor = actor], 200, DOMAIN users)
    /\ UNCHANGED <<users, attendance, delegations, capacity, now, lastWrite>>

---------------------------------------------------------------------------
\* The Tribe Lead's change of a user's role and Chapter-Lead link, made
\* outside these handlers

MutateHierarchy(id, role, chapterLeadId) ==
    /\ id \in DOMAIN users
    /\ users' = [users EXCEPT ![id] = [@ EXCEPT !.role = role,
                                                !.chapterLeadId = chapterLeadId]]
    /\ UNCHANGED <<attendance, delegations, capacity, now, last, pc, lastWrite>>

---------------------------------------------------------------------------
\* Time passes: the clock reads the later instant t

Tick(t) ==
    /\ now < t /\ t <= 12 * MaxTime
    /\ now' = t
    /\ UNCHANGED <<users, attendance, delegations, capacity, last, pc, lastWrite>>

---------------------------------------------------------------------------
\* Initial state: the seeded users, empty tables, no request answered yet

Init ==
    /\ users = InitUsers
    /\ attendance = {}
    /\ delegations = {}
    /\ capacity = {}
    /\ now = 0
    /\ last = NoRequest
    /\ pc = [w \in Workers |-> Idle]
    /\ lastWrite = {}

---------------------------------------------------------------------------
\* The session-based handlers: the second set of handlers for /api/attendance,
\* /api/attendance/[id], /api/users and /api/users/[id].  They take their
\* principal from auth() and know the role "admin" in place of the hierarchy

\* auth() of @/lib/auth: session.user is the already-authenticated principal
\* of the request, named by its id, with its role, or there is no session
auth(actor) ==
    IF actor \in DOMAIN users THEN UserRow(actor) ELSE NullUser

\* await auth(), safeParse of the query
LegacyGetAttendance(w, actor, userId, startDate, endDate, status) ==
    LET session == auth(actor)
        q == [Idle EXCEPT !.op = "legacyList", !.actor = actor, !.user = session,
                          !.target = userId, !.startDate = startDate,
                          !.endDate = endDate, !.status = status]
        code == IF session = NullUser THEN 401
                ELSE IF ~getAttendanceQuerySchema(userId, startDate, endDate, status)
                     THEN 400
                ELSE 0
    IN  /\ Enter(w, q, code, "LegacyGetAttendanceFindMany")
        /\ UNCHANGED <<users, attendance, delegations, capacity, now, lastWrite>>

\* await prisma.attendanceRecord.findMany({where}): the where clause holds the
\* filters of the query only
LegacyGetAttendanceFindMany(w) ==
    LET q == pc[w]
    IN  /\ q.at = "LegacyGetAttendanceFindMany"
        /\ Return(w, q, 200,
                  {r \in attendance :
                      AttendanceWhere(r, {r.userId}, q.target, q.startDate, q.endDate,
                                      q.status)})
        /\ UNCHANGED <<users, attendance, delegations, capacity, now, lastWrite>>

\* the early returns before the upsert (0: none)
LegacyPostAttendanceCode(session, userId, date, status, notes) ==
    IF session = NullUser THEN 401
    ELSE IF ~createAttendanceSchema(userId, date, status, notes) THEN 400
    ELSE IF userId # session.id /\ session.role # "admin" THEN 403
    ELSE 0

\* await auth(), request.json(), safeParse, the self-or-admin check
LegacyPostAttendance(w, actor, userId, date, status, notes) ==
    LET session == auth(actor)
        q == [Idle EXCEPT !.op = "legacyUpsert", !.actor = actor, !.user = session,
                          !.target = userId, !.startDate = date,
                          !.status = status, !.notes = notes]
    IN  /\ Enter(w, q, LegacyPostAttendanceCode(session, userId, date, status, notes),
                 "LegacyPostAttendanceUpsert")
        /\ UNCHANGED <<users, attendance, delegations, capacity, now, lastWrite>>

LegacyPostAttendanceUpsert(w) == Upsert(w, "LegacyPostAttendanceUpsert")

\* await auth()
LegacyGetAttendanceById(w, actor, id) ==
    LET session == auth(actor)
        q == [Idle EXCEPT !.op = "legacyById", !.actor = actor, !.user = session,
                          !.rid = id]
    IN  /\ Enter(w, q, IF session = NullUser THEN 401 ELSE 0,
                 "LegacyGetAttendanceByIdFindUnique")
        /\ UNCHANGED <<users, attendance, delegations, capacity, now, lastWrite>>

\* await prisma.attendanceRecord.findUnique({where: {id}}) and the response
LegacyGetAttendanceByIdFindUnique(w) ==
    LET q == pc[w]
        record == FindById(attendance, q.rid)
    IN  /\ q.at = "LegacyGetAttendanceByIdFindUnique"
        /\ IF record = {} THEN Return(w, q, 404, {})
                          ELSE Return(w, [q EXCEPT !.rows = record], 200, record)
        /\ UNCHANGED <<users, attendance, delegations, capacity, now, lastWrite>>

\* the checks made on the row read by findUnique: owner or admin (0: none fails)
LegacyModifyCode(session, existingRecord) ==
    IF existingRecord = {} THEN 404
    ELSE IF \E r \in existingRecord :
                r.userId # session.id /\ session.role # "admin" THEN 403
    ELSE 0

\* await auth()
LegacyPatchAttendance(w, actor, id, status, notes) ==
    LET session == auth(actor)
        q == [Idle EXCEPT !.op = "legacyPatch", !.actor = actor, !.user = session,
                          !.rid = id, !.status = status, !.notes = notes]
    IN  /\ Enter(w, q, IF session = NullUser THEN 401 ELSE 0,
                 "LegacyPatchAttendanceFindUnique")
        /\ UNCHANGED <<users, attendance, delegations, capacity, now, lastWrite>>

\* await prisma.attendanceRecord.findUnique, the owner check, safeParse
LegacyPatchAttendanceFindUnique(w) ==
    LET q == pc[w]
        existingRecord == FindById(attendance, q.rid)
        code == IF LegacyModifyCode(q.user, existingRecord) # 0
                THEN LegacyModifyCode(q.user, existingRecord)
                ELSE IF ~updateAttendanceSchema(q.status, q.notes) THEN 400
                ELSE 0
        r == [q EXCEPT !.rows = existingRecord]
    IN  /\ q.at = "LegacyPatchAttendanceFindUnique"
        /\ IF code = 0 THEN Await(w, r, "LegacyPatchAttendanceUpdate")
                       ELSE Return(w, r, code, {})
        /\ UNCHANGED <<users, attendance, delegations, capacity, now, lastWrite>>

LegacyPatchAttendanceUpdate(w) == Update(w, "LegacyPatchAttendanceUpdate")

\* await auth()
LegacyDeleteAttendance(w, actor, id) ==
    LET session == auth(actor)
        q == [Idle EXCEPT !.op = "legacyDelete", !.actor = actor, !.user = session,
                          !.rid = id]
    IN  /\ Enter(w, q, IF session = NullUser THEN 401 ELSE 0,
                 "LegacyDeleteAttendanceFindUnique")
        /\ UNCHANGED <<users, attendance, delegations, capacity, now, lastWrite>>

\* await prisma.attendanceRecord.findUnique, the owner check
LegacyDeleteAttendanceFindUnique(w) ==
    LET q == pc[w]
        existingRecord == FindById(attendance, q.rid)
        code == LegacyModifyCode(q.user, existingRecord)
        r == [q EXCEPT !.rows = existingRecord]
    IN  /\ q.at = "LegacyDeleteAttendanceFindUnique"
        /\ IF code = 0 THEN Await(w, r, "LegacyDeleteAttendanceDelete")
                       ELSE Return(w, r, code, {})
        /\ UNCHANGED <<users, attendance, delegations, capacity, now, lastWrite>>

LegacyDeleteAttendanceDelete(w) == Delete(w, "LegacyDeleteAttendanceDelete")

\* the early returns before the update (0: none)
LegacyPatchUserCode(session, id, body) ==
    IF session = NullUser THEN 401
    ELSE IF session.id # id /\ session.role # "admin" THEN 403
    ELSE IF ~UpdateUserValid(body) THEN 400
    ELSE IF UpdateUserData(body).role # Omitted /\ session.role # "admin" THEN 403
    ELSE 0

\* await auth(), params, request.json(), updateUserSchema.safeParse
LegacyPatchUser(w, actor, id, body) ==
    LET session == auth(actor)
        q == [Idle EXCEPT !.op = "legacyPatchUser", !.actor = actor, !.user = session,
                          !.target = id, !.status = body.role,
                          !.lead = body.chapterLeadId, !.notes = body.name,
                          !.email = body.email, !.avatarUrl = body.avatarUrl]
    IN  /\ Enter(w, q, LegacyPatchUserCode(session, id, body), "LegacyPatchUserUpdate")
        /\ UNCHANGED <<users, attendance, delegations, capacity, now, lastWrite>>

LegacyPatchUserUpdate(w) ==
    \E column \in RoleColumns : UpdateUser(w, "LegacyPatchUserUpdate", column)

\* DELETE /api/users/[id]: await auth(); a session whose role is not "admin"
\* is answered 403, and no session carries that role
LegacyDeleteUser(w, actor, id, onDelete, onDeleteOwned) ==
    LET session == auth(actor)
        q == [Idle EXCEPT !.op = "legacyDeleteUser", !.actor = actor, !.user = session,
                          !.target = id, !.status = onDelete,
                          !.notes = onDeleteOwned]
    IN  /\ Enter(w, q, IF session = NullUser \/ session.role # "admin" THEN 403 ELSE 0,
                 "LegacyDeleteUserDelete")
        /\ UNCHANGED <<users, attendance, delegations, capacity, now, lastWrite>>

\* await prisma.user.delete and the response
LegacyDeleteUserDelete(w) == RemoveUser(w, "LegacyDeleteUserDelete")

\* POST /api/users: the import of auth is commented out in this file, the call
\* throws and the catch answers 500
LegacyCreateUser(w, actor, email, role) ==
    /\ pc[w].at = "idle"
    /\ Return(w, [Idle EXCEPT !.op = "legacyCreateUser", !.actor = actor,
                              !.target = email, !.status = role], 500, {})
    /\ UNCHANGED <<users, attendance, delegations, capacity, now, lastWrite>>

---------------------------------------------------------------------------
\* Request inputs and the steps that follow a handler's first one

\* The instants the clock is read at.  The handlers compare the instant they
\* read with midnights of the server's zone, with midnights UTC and with the
\* bounds of delegation windows, which lie at noon and midnight UTC: Instants
\* holds these hours of every UTC day and one hour inside each interval they
\* leave open; HalfDays holds noon and midnight UTC only

DayMarks == {(24 - tz) % 24 : tz \in Zones} \cup {12} \cup {1, 13}

Instants == {t \in 0..(12 * MaxTime) : t % 24 \in DayMarks}

HalfDays == {12 * k : k \in 0..MaxTime}

\* the first instant of T after now
After(T) == {t \in T : t > now /\ \A s \in T : s > now => t <= s}

\* the one window the Tribe Lead grants: [12, 12 * (MaxTime - 1)], in hours;
\* the clock starts before it and ends after it
WindowStart == {12}
WindowEnd == {12, 12 * (MaxTime - 1)}

PostAttendanceSteps(w) ==
    \/ PostAttendanceCanAllocate(w)
    \/ PostAttendanceUpsert(w)

AllocateSteps(w) ==
    \/ AllocateCanAllocate(w)
    \/ AllocateFindUnique(w)
    \/ AllocateFindFirst(w)
    \/ AllocateUpsert(w)

PatchAttendanceSteps(w) ==
    \/ PatchAttendanceFindUnique(w)
    \/ PatchAttendanceUpdate(w)

DeleteAttendanceSteps(w) ==
    \/ DeleteAttendanceFindUnique(w)
    \/ DeleteAttendanceDelete(w)

CreateDelegationSteps(w) ==
    \/ CreateDelegationFindUnique(w)
    \/ CreateDelegationUpdateMany(w)
    \/ CreateDelegationCreate(w)

GetCapacitySteps(w) ==
    \/ GetCapacityFindMany(w)
    \/ GetCapacityCreateMany(w)
    \/ GetCapacityFindManyAgain(w)
    \/ GetCapacityCount(w)

GetOccupancySteps(w) ==
    \/ GetOccupancyAccessible(w)
    \/ GetOccupancyChapterLeadUsers(w)
    \/ GetOccupancyFindMany(w)

GetWeeklyPatternSteps(w) ==
    \/ GetWeeklyPatternAccessible(w)
    \/ GetWeeklyPatternChapterLeadUsers(w)
    \/ GetWeeklyPatternFindMany(w)

GetOverviewSteps(w) ==
    \/ GetOverviewAccessible(w)
    \/ GetOverviewChapterLeadUsers(w)
    \/ GetOverviewFindMany(w)

\* POST /api/delegations and DELETE /api/delegations
RegistryRequest(w, delegates) ==
    \/ \E a \in {"t1", "c1"}, u \in delegates \cup {Ghost}, s \in WindowStart,
          e \in WindowEnd : CreateDelegation(w, a, u, s, e)
    \/ CreateDelegationSteps(w)
    \/ \E a \in {"t1", "r1"}, id \in 1..MaxDelegations : RevokeDelegation(w, a, id)
    \/ RevokeDelegationUpdate(w)

---------------------------------------------------------------------------
\* Spec: attendance writes through the self-service entry point, by every
\* principal for every target, while delegations come and go

Next ==
    \/ \E t \in After(HalfDays) : Tick(t)
    \/ RegistryRequest("w1", {"r1"})
    \/ \E a \in AnyId, u \in AnyId :
          PostAttendance("w1", a, u, 1, "office", Omitted)
    \/ PostAttendanceSteps("w1")

Spec == Init /\ [][Next]_vars

---------------------------------------------------------------------------
\* SpecRead: the retrieval operations, over a ledger filled by self-service
\* upserts, while delegations come and go

NextRead ==
    \/ \E t \in After(Instants) : Tick(t)
    \/ \E e \in WindowEnd : CreateDelegation("w1", "t1", "r1", 12, e)
    \/ CreateDelegationSteps("w1")
    \/ \E id \in 1..MaxDelegations : RevokeDelegation("w1", "t1", id)
    \/ RevokeDelegationUpdate("w1")
    \/ \E a \in {"r1", "r2"} : PostAttendance("w1", a, a, 1, "office", Omitted)
    \/ PostAttendanceSteps("w1")
    \/ \E a \in AnyId : GetUsers("w1", a)
    \/ GetUsersAccessible("w1")
    \/ GetUsersFindMany("w1")
    \/ \E a \in {"c1", "r1"}, u \in {Omitted, "r1", "r2", Ghost, Malformed} :
          GetAttendance("w1", a, u, NoDate, NoDate, Omitted)
    \/ \E s \in {1, 2}, st \in {Omitted, "remote", "off"} :
          GetAttendance("w1", "t1", Omitted, s, NoDate, st)
    \/ GetAttendanceAccessible("w1")
    \/ GetAttendanceFindMany("w1")
    \/ \E a \in {"c1", "r1"}, tz \in Zones, week \in {NoWeek, 2} :
          GetWeek("w1", a, tz, 0, week)
    \/ GetWeekFindMany("w1")
    \/ \E a \in {"c1", "r1"}, id \in 1..MaxRecords :
          GetAttendanceById("w1", a, id)
    \/ GetAttendanceByIdFindUnique("w1")

SpecRead == Init /\ [][NextRead]_vars

---------------------------------------------------------------------------
\* SpecAdmin: the administrative operations next to the stores they act on

NextAdmin ==
    \/ \E t \in After(HalfDays) : Tick(t)
    \/ RegistryRequest("w1", {"c1", "r1"})
    \/ \E a \in {"c1", "r2"} : PostAttendance("w1", a, a, 1, "office", Omitted)
    \/ PostAttendanceSteps("w1")
    \/ \E a \in AnyId, c \in {-1, 5} : PutCapacity("w1", a, "Monday", c)
    \/ \E a \in {"t1"} : PutCapacity("w1", a, "Sunday", 5)
    \/ PutCapacityUpsert("w1")
    \/ \E a \in AnyId : ResetStatistics("w1", a)
    \/ ResetStatisticsTransaction("w1")

SpecAdmin == Init /\ [][NextAdmin]_vars

---------------------------------------------------------------------------
\* SpecRegistry: delegation requests served concurrently, each suspended at
\* its awaits

NextRegistry ==
    \/ \E w \in Workers, a \in {"t1", "c1"}, u \in {"c1", "r1", Ghost},
          s \in WindowStart, e \in WindowEnd : CreateDelegation(w, a, u, s, e)
    \/ \E w \in Workers : CreateDelegationSteps(w)
    \/ \E a \in {"t1", "r1"}, id \in 1..MaxDelegations :
          RevokeDelegation("w1", a, id)
    \/ RevokeDelegationUpdate("w1")

SpecRegistry == Init /\ [][NextRegistry]_vars

---------------------------------------------------------------------------
\* SpecLedger: attendance writes served concurrently, each suspended at its
\* awaits while the other request runs

NextLedger ==
    \/ \E w \in Workers, s \in {"office", "remote"} :
          PostAttendance(w, "r1", "r1", 1, s, "n")
    \/ PostAttendance("w1", "r1", "r1", 1, "office", "")
    \/ \E w \in Workers : PostAttendanceSteps(w)
    \/ \E a \in {"t1", "c1"} :
          AllocateAttendance("w2", a, "r1", 2, "remote", Omitted)
    \/ AllocateSteps("w2")
    \/ \E id \in 1..MaxRecords :
          \/ PatchAttendance("w1", "t1", id, "absent", Omitted)
          \/ DeleteAttendance("w1", "t1", id)
    \/ \E id \in 1..MaxRecords :
          \/ PatchAttendance("w1", "r1", id, Omitted, NoNotes)
          \/ DeleteAttendance("w1", "r1", id)
    \/ PatchAttendanceSteps("w1")
    \/ DeleteAttendanceSteps("w1")

SpecLedger == Init /\ [][NextLedger]_vars

---------------------------------------------------------------------------
\* SpecAnalytics: the analytics reads with their narrowing parameters, over a
\* ledger filled by self-service upserts, all on day 0 (a record dated day 1
\* lies outside the default windows and inside an explicit one)

NextAnalytics ==
    \/ \E s \in {"office", "remote"} :
          PostAttendance("w1", "c1", "c1", 0, s, Omitted)
    \/ \E a \in {"t1", "r1"} : PostAttendance("w1", a, a, 0, "office", Omitted)
    \/ PostAttendance("w1", "r2", "r2", 1, "office", Omitted)
    \/ PostAttendanceSteps("w1")
    \/ \E a \in {"t1", "c1", "r1", Ghost}, u \in {Omitted, "r1", "r2"},
          l \in {Omitted, "c1"} :
          \/ GetOccupancy("w1", a, 0, u, l, NoDate, NoDate)
          \/ GetWeeklyPattern("w1", a, 0, u, l, NoDate, NoDate)
          \/ GetOverview("w1", a, 0, u, l, NoDate, NoDate)
    \/ \E a \in {"t1", "c1"}, tz \in Zones :
          \/ GetOccupancy("w1", a, tz, Omitted, Omitted, 0, 1)
          \/ GetWeeklyPattern("w1", a, tz, Omitted, Omitted, 1, 1)
          \/ GetOverview("w1", a, tz, Omitted, Omitted, 0, 0)
    \/ GetOccupancySteps("w1")
    \/ GetWeeklyPatternSteps("w1")
    \/ GetOverviewSteps("w1")

SpecAnalytics == Init /\ [][NextAnalytics]_vars

---------------------------------------------------------------------------
\* SpecById: removal of records by id through both handlers of the route, by
\* every principal, while the Tribe Lead hands a delegation to the Chapter
\* Lead or to a reporter

NextById ==
    \/ \E t \in After(HalfDays) : Tick(t)
    \/ \E u \in {"c1", "r2"} :
          CreateDelegation("w1", "t1", u, 12, 12 * (MaxTime - 1))
    \/ CreateDelegationSteps("w1")
    \/ \E a \in {"t1", "r1"} :
          PostAttendance("w1", a, a, 1, "office", Omitted)
    \/ PostAttendanceSteps("w1")
    \/ \E a \in AnyId, id \in 1..MaxRecords : DeleteAttendance("w1", a, id)
    \/ DeleteAttendanceSteps("w1")
    \/ \E a \in AnyId, id \in 1..MaxRecords : LegacyDeleteAttendance("w1", a, id)
    \/ LegacyDeleteAttendanceFindUnique("w1")
    \/ LegacyDeleteAttendanceDelete("w1")

SpecById == Init /\ [][NextById]_vars

---------------------------------------------------------------------------
\* SpecVocabulary: the three write entry points with statuses inside and
\* outside their schemas, the allocate entry point by a principal of every
\* role for every target, itself included

NextVocabulary ==
    \/ \E a \in {"c1", "r1"}, s \in {"office", "vacation", "off"} :
          PostAttendance("w1", a, a, 1, s, Omitted)
    \/ \E a \in {"t1", "c1", "r1"} :
          PostAttendance("w1", a, Ghost, 1, "office", Omitted)
    \/ PostAttendance("w1", "r1", "r1", 1, "office", NoNotes)
    \/ PostAttendanceSteps("w1")
    \/ \E a \in AnyId \ {"r2"}, u \in AnyId \ {"r2"},
          s \in {"office", "off", "vacation"} :
          AllocateAttendance("w1", a, u, 1, s, Omitted)
    \/ AllocateSteps("w1")
    \/ \E a \in {"t1", "r1"}, id \in 1..MaxRecords, s \in {"remote", "off"} :
          PatchAttendance("w1", a, id, s, Omitted)
    \/ \E a \in {"t1", "r1"}, id \in 1..MaxRecords :
          PatchAttendance("w1", a, id, Omitted, "n")
    \/ PatchAttendanceSteps("w1")

SpecVocabulary == Init /\ [][NextVocabulary]_vars

---------------------------------------------------------------------------
\* SpecDelegation: the delegation registry under one request at a time, and
\* the check of the caller's own delegation, while the clock passes through
\* the window

NextDelegation ==
    \/ \E t \in After(Instants) : Tick(t)
    \/ RegistryRequest("w1", {"c1", "r1"})
    \/ \E a \in AnyId : GetActiveDelegation("w1", a)
    \/ GetActiveDelegationFindFirst("w1")

SpecDelegation == Init /\ [][NextDelegation]_vars

---------------------------------------------------------------------------
\* SpecCapacity: capacity reads by two concurrent requests, each suspended at
\* its awaits, next to capacity updates and office bookings

NextCapacity ==
    \/ \E a \in {"c1", "r1", Ghost} : GetCapacity("w1", a, 0, 0)
    \/ \E o \in {0, 1} : GetCapacity("w2", "t1", 0, o)
    \/ \E w \in Workers : GetCapacitySteps(w)
    \/ \E c \in {1, 3} : PutCapacity("w2", "t1", "Monday", c)
    \/ PutCapacityUpsert("w2")
    \/ PostAttendance("w2", "r2", "r2", 0, "office", Omitted)
    \/ PostAttendanceSteps("w2")
    \/ AllocateAttendance("w2", "c1", "r1", 0, "office", Omitted)
    \/ AllocateSteps("w2")

SpecCapacity == Init /\ [][NextCapacity]_vars

---------------------------------------------------------------------------
\* SpecOccupancy: the week's occupancy figures over a Monday (day 0) booked by
\* up to MaxBooked reporters, for the default and for configured capacities

CrowdId(i) == "u" \o ToString(i)

CrowdUsers ==
    [u \in UserIds \cup {CrowdId(i) : i \in 1..MaxBooked} |->
        IF u \in UserIds THEN InitUsers[u]
        ELSE [role |-> "REPORTER", chapterLeadId |-> NoUser, email |-> u,
              name |-> u, avatarUrl |-> Null]]

\* the first n reporters of the crowd hold an office record for day 0
CrowdBookings(n) ==
    {[id |-> i, userId |-> CrowdId(i), date |-> 0, status |-> "office",
      notes |-> NoNotes] : i \in 1..n}

InitOccupancy ==
    /\ users = CrowdUsers
    /\ \E n \in 0..MaxBooked : attendance = CrowdBookings(n)
    /\ delegations = {}
    /\ capacity = {}
    /\ now = 0
    /\ last = NoRequest
    /\ pc = [w \in Workers |-> Idle]
    /\ lastWrite = {}

NextOccupancy ==
    \/ \E c \in {0, 10, 40} : PutCapacity("w1", "t1", "Monday", c)
    \/ PutCapacityUpsert("w1")
    \/ \E a \in {"t1", "c1"}, tz \in Zones : GetCapacity("w1", a, tz, 0)
    \/ GetCapacitySteps("w1")

SpecOccupancy == InitOccupancy /\ [][NextOccupancy]_vars

---------------------------------------------------------------------------
\* SpecSettings: capacity reads and updates by every principal and the
\* statistics reset, while the Tribe Lead hands out a delegation; the reset
\* runs next to a capacity read suspended at its awaits

NextSettings ==
    \/ \E t \in After(HalfDays) : Tick(t)
    \/ CreateDelegation("w2", "t1", "r1", 12, 12 * (MaxTime - 1))
    \/ CreateDelegationSteps("w2")
    \/ \E a \in {"t1", "r1"}, c \in {-1, 5} : PutCapacity("w2", a, "Monday", c)
    \/ PutCapacityUpsert("w2")
    \/ \E a \in {"t1", "c1", "r1"} : GetCapacity("w1", a, 0, 0)
    \/ GetCapacitySteps("w1")
    \/ ResetStatistics("w2", "t1")
    \/ ResetStatisticsTransaction("w2")
    \/ PostAttendance("w2", "r1", "r1", 0, "office", Omitted)
    \/ PostAttendanceSteps("w2")

SpecSettings == Init /\ [][NextSettings]_vars

---------------------------------------------------------------------------
\* SpecDirectory: the user table under creations, updates and deletions, and
\* the principal a header resolves to once addresses have changed

\* bodies that name a role and a Chapter Lead
UserBodies ==
    [role : {Omitted, "user", "REPORTER"},
     chapterLeadId : {Omitted, "c1"},
     name : {Omitted}, email : {Omitted}, avatarUrl : {Omitted}]

\* bodies that change the address alone: to a free one, to the one of c1, to
\* the user's first one, to no address at all
EmailBodies ==
    [role : {Omitted}, chapterLeadId : {Omitted}, name : {Omitted},
     email : {"moved", "c1", "r1", BadEmail}, avatarUrl : {Omitted}]

\* bodies that change the name and the avatar, well-formed or not
ProfileBodies ==
    [role : {Omitted}, chapterLeadId : {Omitted}, name : {"", "n"},
     email : {Omitted}, avatarUrl : {Omitted}]
        \cup [role : {Omitted}, chapterLeadId : {Omitted}, name : {Omitted},
              email : {Omitted}, avatarUrl : {Null, BadUrl, "https://cdn/a.png"}]

NextDirectory ==
    \/ \E a \in {"t1", Ghost} : LegacyCreateUser("w1", a, NewUser, Omitted)
    \/ \E a \in {"r1", "moved"} : GetMe("w1", a)
    \/ GetMeFindUnique("w1")
    \/ \E a \in {"t1", "c1", "r1", Ghost}, id \in {"c1", "r1", Ghost},
          b \in UserBodies : PatchUser("w1", a, id, b)
    \/ \E a \in {"t1", "r1", "moved"}, b \in EmailBodies :
          PatchUser("w1", a, "r1", b)
    \/ \E b \in ProfileBodies : PatchUser("w1", "r1", "r1", b)
    \/ PatchUserUpdate("w1")
    \/ \E a \in {"t1", "c1", Ghost}, id \in {"t1", "c1", "r1", Ghost},
          m \in ReferentialActions : DeleteUser("w1", a, id, m, "Restrict")
    \/ DeleteUserDelete("w1")

SpecDirectory == Init /\ [][NextDirectory]_vars

---------------------------------------------------------------------------
\* SpecPrincipal: every operation called with and without a resolved principal

Callers == {"t1", Ghost}

NextPrincipal ==
    \/ \E a \in Callers : PostAttendance("w1", a, "r1", 0, "office", Omitted)
    \/ PostAttendanceSteps("w1")
    \/ \E a \in Callers \cup {"c1"} :
          AllocateAttendance("w1", a, "r1", 1, "remote", Omitted)
    \/ AllocateSteps("w1")
    \/ \E a \in Callers : GetAttendance("w1", a, Omitted, NoDate, NoDate, Omitted)
    \/ GetAttendanceAccessible("w1")
    \/ GetAttendanceFindMany("w1")
    \/ \E a \in Callers : GetWeek("w1", a, 0, 0, NoWeek)
    \/ GetWeekFindMany("w1")
    \/ \E a \in Callers, id \in {1} :
          \/ GetAttendanceById("w1", a, id)
          \/ PatchAttendance("w1", a, id, "absent", Omitted)
          \/ DeleteAttendance("w1", a, id)
    \/ GetAttendanceByIdFindUnique("w1")
    \/ PatchAttendanceSteps("w1")
    \/ DeleteAttendanceSteps("w1")
    \/ \E a \in Callers : CreateDelegation("w1", a, "r1", 12, 12 * (MaxTime - 1))
    \/ CreateDelegationSteps("w1")
    \/ \E a \in Callers : RevokeDelegation("w1", a, 1)
    \/ RevokeDelegationUpdate("w1")
    \/ \E a \in Callers : GetActiveDelegation("w1", a)
    \/ GetActiveDelegationFindFirst("w1")
    \/ \E a \in Callers : PutCapacity("w1", a, "Monday", 5)
    \/ PutCapacityUpsert("w1")
    \/ \E a \in Callers : GetCapacity("w1", a, 0, 0)
    \/ GetCapacitySteps("w1")
    \/ \E a \in Callers : ResetStatistics("w1", a)
    \/ ResetStatisticsTransaction("w1")
    \/ \E a \in Callers :
          GetOccupancy("w1", a, 0, Omitted, Omitted, NoDate, NoDate)
    \/ GetOccupancyAccessible("w1")
    \/ GetOccupancyFindMany("w1")
    \/ \E a \in Callers :
          GetWeeklyPattern("w1", a, 0, Omitted, Omitted, NoDate, NoDate)
    \/ GetWeeklyPatternAccessible("w1")
    \/ GetWeeklyPatternFindMany("w1")
    \/ \E a \in Callers :
          GetOverview("w1", a, 0, Omitted, Omitted, NoDate, NoDate)
    \/ GetOverviewAccessible("w1")
    \/ GetOverviewFindMany("w1")
    \/ \E a \in Callers :
          PatchUser("w1", a, "r1",
                    [role |-> Omitted, chapterLeadId |-> Omitted, name |-> "r1",
                     email |-> Omitted, avatarUrl |-> Omitted])
    \/ PatchUserUpdate("w1")
    \/ \E a \in Callers : DeleteUser("w1", a, "r2", "SetNull", "Cascade")
    \/ DeleteUserDelete("w1")
    \/ \E a \in Callers : GetUsers("w1", a)
    \/ GetUsersAccessible("w1")
    \/ GetUsersFindMany("w1")
    \/ \E a \in Callers : GetUserById("w1", a, "r1")
    \/ GetUserByIdCanAccess("w1")
    \/ GetUserByIdFindUnique("w1")
    \/ \E a \in Callers : GetMe("w1", a)
    \/ GetMeFindUnique("w1")
    \/ \E a \in Callers : GetAllUsers("w1", a)

SpecPrincipal == Init /\ [][NextPrincipal]_vars

---------------------------------------------------------------------------
\* SpecHandoff: attendance writes in flight while the hierarchy changes

NextHandoff ==
    \/ \E a \in {"c1", "t1"} :
          AllocateAttendance("w1", a, "r1", 0, "office", Omitted)
    \/ AllocateSteps("w1")
    \/ \E a \in {"c1", "r1", "r2"} :
          PostAttendance("w2", a, "r1", 1, "remote", Omitted)
    \/ PostAttendanceSteps("w2")
    \/ \E m \in {NoUser, "c1"} : MutateHierarchy("r1", "REPORTER", m)
    \/ \E r \in {"CHAPTER_LEAD", "REPORTER"} : MutateHierarchy("c1", r, NoUser)
    \/ \E id \in {"c1", "r1"}, m \in ReferentialActions,
          o \in {"Cascade", "Restrict", "NoAction"} :
          DeleteUser("w2", "t1", id, m, o)
    \/ DeleteUserDelete("w2")

SpecHandoff == Init /\ [][NextHandoff]_vars

---------------------------------------------------------------------------
\* SpecLegacy: the session-based handlers, by every session, over a ledger
\* filled through them

LegacyBodies ==
    [role : {Omitted, "user"}, chapterLeadId : {Omitted}, name : {Omitted, "", "n"},
     email : {Omitted, "moved", "t1", BadEmail}, avatarUrl : {Omitted, BadUrl}]

NextLegacy ==
    \/ \E a \in AnyId, u \in {"r1", Ghost, Omitted}, s \in {"office", "off"},
          n \in {Omitted, NoNotes} : LegacyPostAttendance("w1", a, u, 1, s, n)
    \/ LegacyPostAttendanceUpsert("w1")
    \/ \E a \in {"t1", "r1", Ghost}, u \in {Omitted, "r2", Malformed} :
          LegacyGetAttendance("w1", a, u, NoDate, NoDate, Omitted)
    \/ LegacyGetAttendanceFindMany("w1")
    \/ \E a \in {"t1", "r1", Ghost}, id \in 1..MaxRecords :
          \/ LegacyGetAttendanceById("w1", a, id)
          \/ LegacyDeleteAttendance("w1", a, id)
          \/ \E s \in {"remote", "off"} :
                LegacyPatchAttendance("w1", a, id, s, Omitted)
    \/ LegacyGetAttendanceByIdFindUnique("w1")
    \/ LegacyPatchAttendanceFindUnique("w1")
    \/ LegacyPatchAttendanceUpdate("w1")
    \/ LegacyDeleteAttendanceFindUnique("w1")
    \/ LegacyDeleteAttendanceDelete("w1")
    \/ \E a \in {"t1", "r1", Ghost}, id \in {"r1", "r2"}, b \in LegacyBodies :
          LegacyPatchUser("w1", a, id, b)
    \/ LegacyPatchUserUpdate("w1")
    \/ \E a \in {"t1", Ghost} : LegacyDeleteUser("w1", a, "r2", "SetNull", "Cascade")
    \/ \E a \in {"t1", Ghost} : LegacyCreateUser("w1", a, NewUser, Omitted)
    \/ \E a \in {"t1", Ghost} : GetAllUsers("w1", a)

SpecLegacy == Init /\ [][NextLegacy]_vars

---------------------------------------------------------------------------
\* Properties
\*
\* Addresses change in SpecDirectory and SpecLegacy only: in every other
\* specification a user stays registered under the address it was seeded with,
\* and `actor`, the address in the header of a request, is the id of the
\* principal the header resolves to.

roleOf(u) == users[u].role

\* the hierarchy rule for acting on behalf of a target, as the design states it
HierarchyAllows(actor, target) ==
    \/ actor = target
    \/ roleOf(actor) = "TRIBE_LEAD"
    \/ roleOf(actor) = "CHAPTER_LEAD" /\ users[target].chapterLeadId = actor

\* the read reach of a principal, as the design states it
BaseReadSet(principal) ==
    CASE roleOf(principal) = "TRIBE_LEAD" -> DOMAIN users
      [] roleOf(principal) = "CHAPTER_LEAD" ->
            {principal} \cup {u \in DOMAIN users : users[u].chapterLeadId = principal}
      [] OTHER -> {principal}

DesignReadSet(principal, delegated) ==
    IF delegated THEN DOMAIN users ELSE BaseReadSet(principal)

\* worker w takes the step `call` of its handler and answers the request
Answers(w, call) == pc[w].at = call /\ pc'[w].at = "idle"

\* C1: a self-service upsert by a principal that holds no currently effective
\* delegation succeeds exactly when the target is the principal itself, or the
\* principal is the Tribe Lead, or the principal is the Chapter Lead of the
\* target; otherwise the answer is 403 and the ledger is left as it was.
C1_SelfServiceAuthorization ==
    /\ ( /\ last.op = "upsert"
         /\ last.actor \in DOMAIN users
         /\ last.target \in DOMAIN users
         /\ ~last.delegated )
       => /\ last.code = 201 <=> HierarchyAllows(last.actor, last.target)
          /\ ~HierarchyAllows(last.actor, last.target) => last.code = 403
    /\ (last.op = "upsert" /\ last.code # 201) => ~last.wrote

\* a Chapter Lead without delegation was refused a write for a reporter of
\* another team, with a record in the ledger
C1_Witness ==
    /\ last.op = "upsert" /\ last.code = 403 /\ ~last.delegated
    /\ last.actor = "c1" /\ last.target = "r2"
    /\ attendance # {}

\* C2: for a principal without a currently effective delegation the accessible
\* set is every user for the Tribe Lead, the principal and its direct reports
\* for a Chapter Lead, and the principal alone for a reporter.
C2_AccessibleSetByRole ==
    (last.op = "users" /\ last.code = 200 /\ ~last.delegated)
        => /\ last.userIds = BaseReadSet(last.actor)
           /\ last.body = BaseReadSet(last.actor)

\* the Chapter Lead listed the users and got itself and its one direct report
C2_Witness ==
    /\ last.op = "users" /\ last.code = 200 /\ ~last.delegated
    /\ last.actor = "c1" /\ last.userIds = {"c1", "r1"}

\* C3: a principal with a currently effective delegation may upsert for any
\* target; without one (window over, or revoked) the upsert for a target that
\* is neither the principal nor its direct report is refused with 403.
C3_DelegationGrantsWriteReach ==
    (last.op = "upsert" /\ last.actor \in DOMAIN users /\ last.target \in DOMAIN users)
        => /\ last.delegated => last.code = 201
           /\ (~last.delegated /\ ~HierarchyAllows(last.actor, last.target))
                => last.code = 403

\* C4: a reporter with a currently effective delegation reads every user;
\* outside the window or with the delegation inactive it reads itself only.
C4_DelegationEscalatesReadSet ==
    (last.op = "users" /\ last.code = 200 /\ last.role = "REPORTER")
        => last.userIds = DesignReadSet(last.actor, last.delegated)

\* C5: with requests handled one at a time no delegate ever has two active
\* delegations; a creation for a delegate that has an active delegation
\* succeeds, leaves the new row active and the previous one inactive.
C5_OneActivePerDelegate ==
    /\ [](\A d1, d2 \in delegations :
            (d1.delegateId = d2.delegateId /\ d1.isActive /\ d2.isActive) => d1 = d2)
    /\ []((/\ last.op = "createDelegation"
           /\ last.role = "TRIBE_LEAD"
           /\ last.target \in DOMAIN users
           /\ last.date < last.endDate)
          => (last.code = 201 /\ last.rid # NoId))
    /\ [][\A w \in Workers :
            Answers(w, "CreateDelegationCreate")
              => /\ last'.code = 201
                 /\ \E d \in delegations' :
                       /\ d.id = last'.rid /\ d.isActive
                       /\ d.delegateId = pc[w].target
                       /\ d.id \notin {f.id : f \in delegations}
                 /\ \A f \in pc[w].rows :
                       [f EXCEPT !.isActive = FALSE] \in delegations']_vars

\* a delegation was created for a delegate whose previous one was active
C5_Witness ==
    /\ last.op = "createDelegation" /\ last.code = 201
    /\ last.found # {}
    /\ \E d \in delegations, f \in last.found : d.id = f.id /\ ~d.isActive

\* C6: concurrent creations for one delegate never leave that delegate with
\* two active delegations.
C6_AtomicDeactivateAndInsert ==
    \A u \in UserIds : Cardinality(ActiveOf(u)) <= 1

\* C7: the ledger holds at most one record per (userId, date), and each record
\* carries the status of the write that committed last for its key.
C7_OneRecordPerKeyLastWriterWins ==
    /\ \A r1, r2 \in attendance :
          (r1.userId = r2.userId /\ r1.date = r2.date) => r1 = r2
    /\ \A r \in attendance :
          [userId |-> r.userId, date |-> r.date, status |-> r.status] \in lastWrite

\* an upsert has just replaced another status stored for its key, while the
\* other request was between its permission check and its upsert
C7_Witness ==
    /\ last.op = "upsert" /\ last.code = 201
    /\ \E f \in last.found : f.status # last.status
    /\ \E r \in attendance :
          r.userId = last.target /\ r.date = last.date /\ r.status = last.status
    /\ \E w \in Workers : pc[w].at = "PostAttendanceUpsert"

\* C8: an upsert answered 201 leaves exactly one record for its key, with the
\* status and note of the command; the same upsert applied to the ledger that
\* holds this record is answered 201 and leaves the ledger as it is.
C8_UpsertIdempotent ==
    /\ []((last.op = "upsert" /\ last.code = 201)
            => \E r \in attendance :
                  /\ FindByKey(attendance, last.target, last.date) = {r}
                  /\ r.status = last.status
                  /\ r.notes = NormNotes(last.notes))
    /\ [][\A w \in Workers :
            ( /\ Answers(w, "PostAttendanceUpsert")
              /\ \E r \in attendance : /\ r.userId = pc[w].target
                                       /\ r.date = pc[w].startDate
                                       /\ r.status = pc[w].status
                                       /\ r.notes = NormNotes(pc[w].notes) )
            => (attendance' = attendance /\ last'.code = 201)]_vars

\* the same upsert was applied twice in a row: the second found the record of
\* the first and wrote nothing
C8_Witness ==
    /\ last.op = "upsert" /\ last.code = 201
    /\ last.found = last.body /\ ~last.wrote
    /\ \E f \in last.found : f.status = last.status /\ f.notes = "n"

\* C9: the statistics reset takes effect only for a principal whose own role is
\* TRIBE_LEAD; a Chapter Lead or reporter, with or without a currently
\* effective delegation, gets 403 and the attendance, delegation and capacity
\* stores stay as they were.
C9_ResetNotDelegable ==
    (last.op = "reset" /\ last.actor \in DOMAIN users)
        => /\ last.code = 200 <=> last.role = "TRIBE_LEAD"
           /\ last.role # "TRIBE_LEAD" => (last.code = 403 /\ ~last.wrote)

\* a principal holding a currently effective delegation was refused the reset
\* while all three stores held rows
C9_Witness ==
    /\ last.op = "reset" /\ last.code = 403 /\ last.delegated
    /\ attendance # {} /\ delegations # {} /\ capacity # {}

\* C10: every retrieval (list, week view, record by id) returns only records
\* of users in the principal's accessible read set.
C10_RetrievalWithinReadSet ==
    (last.op \in {"list", "week", "byId"} /\ last.code = 200)
        => \A r \in last.body :
              r.userId \in DesignReadSet(last.actor, last.delegated)

\* C11: a list request that names a userId fails distinguishably: 403 when the
\* user exists but lies outside the principal's read set, 404 when no such user
\* exists (principal without a delegation).
C11_DistinguishableReadFailures ==
    (/\ last.op = "list"
     /\ last.actor \in DOMAIN users
     /\ ~last.delegated
     /\ last.target \notin {Omitted, Malformed})
        => /\ (last.target \in DOMAIN users
                 /\ last.target \notin BaseReadSet(last.actor)) => last.code = 403
           /\ last.target \notin DOMAIN users => last.code = 404

\* C12: in the analytics reads a userId parameter naming a user outside the
\* principal's read set is refused with 403, and a chapterLeadId parameter only
\* narrows the figures to users inside the read set.
C12_AnalyticsFilterDenies ==
    (/\ last.op \in {"occupancy", "weeklyPattern", "overview"}
     /\ last.actor \in DOMAIN users)
        => /\ (last.target # Omitted /\ last.target \notin BaseReadSet(last.actor))
                 => last.code = 403
           /\ (last.code = 200 /\ last.chapterLeadId # Omitted)
                 => last.userIds \subseteq BaseReadSet(last.actor)

\* C13: a delete by id, through either handler of the route, removes the
\* record only for its owner or for a principal whose own role is TRIBE_LEAD
\* (the owner and, in the role-based handler, the Tribe Lead do remove it); a
\* Chapter Lead acting on a direct report's record, with or without a
\* delegation, gets 403 and the record stays; an id that names no record gets
\* 404; a successful delete removes exactly the one record.
C13_DeleteOwnerOrTribeLead ==
    /\ []((last.op \in {"delete", "legacyDelete"} /\ last.actor \in DOMAIN users)
            => /\ last.found = {} <=> last.code = 404
               /\ last.wrote <=> last.code = 200
               /\ \A f \in last.found :
                     /\ last.code = 200
                           => (f.userId = last.actor \/ last.role = "TRIBE_LEAD")
                     /\ f.userId = last.actor => last.code = 200
                     /\ (last.op = "delete" /\ last.role = "TRIBE_LEAD")
                           => last.code = 200
                     /\ last.code # 200 => (last.code = 403 /\ f \in attendance)
                     /\ last.code = 200 => FindById(attendance, f.id) = {})
    /\ [][\A w \in Workers :
            (\/ Answers(w, "DeleteAttendanceDelete")
             \/ Answers(w, "LegacyDeleteAttendanceDelete"))
            => (attendance' = attendance \ pc[w].rows /\ last'.code = 200)]_vars

\* the Chapter Lead, holding a currently effective delegation, was refused the
\* removal of a direct report's record while another record was stored too
C13_Witness ==
    /\ last.op = "delete" /\ last.code = 403 /\ last.delegated
    /\ last.role = "CHAPTER_LEAD"
    /\ \E f \in last.found : users[f.userId].chapterLeadId = last.actor
    /\ Cardinality(attendance) = 2

\* C14: every committed write (upsert through either entry point, update by
\* id) leaves the record with the status and the note of the command; a field
\* the command omits is not kept from the record as it was.
C14_WritesOverwriteStatusAndNote ==
    (/\ last.op \in {"upsert", "allocate", "patch"}
     /\ last.code \in {200, 201})
        => \A r \in last.body :
              /\ r.notes = NormNotes(last.notes)
              /\ last.status # Omitted => r.status = last.status
              /\ last.status = Omitted => \A f \in last.found : r.status # f.status

\* C15 as stated: every stored attendance record has a status among office,
\* remote, absent, vacation, whichever entry point wrote it.
C15_StatusInSelfVocabulary ==
    \A r \in attendance : r.status \in SelfStatuses

\* C15: every stored attendance record has a status among office, remote,
\* absent, vacation and off.  The self-service upsert commits only office,
\* remote, absent or vacation, the allocate entry point only office, remote or
\* off; an update by id that names a status commits only office, remote,
\* absent or vacation, and one that names none leaves the record with the
\* status it had, off included.
C15_StatusInEntryPointVocabulary ==
    /\ [](\A r \in attendance : r.status \in SelfStatuses \cup AllocateStatuses)
    /\ []((last.op = "upsert" /\ last.code = 201)
            => \A r \in last.body : r.status \in SelfStatuses)
    /\ []((last.op = "allocate" /\ last.code = 201)
            => \A r \in last.body : r.status \in AllocateStatuses)
    /\ []((last.op = "patch" /\ last.code = 200 /\ last.status # Omitted)
            => \A r \in last.body :
                  r.status = last.status /\ r.status \in SelfStatuses)
    /\ [][\A w \in Workers :
            (/\ Answers(w, "PatchAttendanceUpdate")
             /\ pc[w].status = Omitted
             /\ last'.code = 200)
                => \A r \in last'.body :
                      \E f \in attendance : f.id = r.id /\ f.status = r.status]_vars

\* an update by id that named no status was answered 200 for a record that an
\* allocation had stored with the status off, and the record still holds off
C15_Witness ==
    /\ last.op = "patch" /\ last.code = 200 /\ last.status = Omitted
    /\ \E r \in last.body : r.status = "off" /\ r \in attendance

\* C16 as stated: an allocation whose target is the principal is answered 400
\* with the ledger unchanged; a committed allocation has a status among office,
\* remote, off; the self-service upsert passes validation of a body with
\* well-formed userId, date and notes exactly for office, remote, absent,
\* vacation.
C16_AllocateRejectsSelfAsInvalid ==
    /\ (last.op = "allocate" /\ last.actor \in DOMAIN users)
          => /\ last.target = last.actor => (last.code = 400 /\ ~last.wrote)
             /\ last.code = 201 => last.status \in AllocateStatuses
    /\ (last.op = "upsert" /\ last.actor \in DOMAIN users /\ last.notes # NoNotes)
          => (last.code # 400 <=> last.status \in SelfStatuses)

\* C16: an allocation whose target is the principal commits nothing: a Chapter
\* Lead or Tribe Lead is answered 400, a reporter 403 (refused before the body
\* is read); a committed allocation has a status among office, remote, off; the
\* self-service upsert passes validation of a body with well-formed userId,
\* date and notes exactly for office, remote, absent, vacation.
C16_AllocateNeverForSelf ==
    /\ (last.op = "allocate" /\ last.actor \in DOMAIN users)
          => /\ last.target = last.actor
                => /\ last.code = IF last.role = "REPORTER" THEN 403 ELSE 400
                   /\ ~last.wrote
             /\ last.code = 201 => (/\ last.status \in AllocateStatuses
                                    /\ last.target # last.actor
                                    /\ \A r \in last.body : r.userId # last.actor)
    /\ (last.op = "upsert" /\ last.actor \in DOMAIN users /\ last.notes # NoNotes)
          => (last.code # 400 <=> last.status \in SelfStatuses)

\* the Tribe Lead, who may write for anyone, named themselves in an allocation
\* with a valid status and was answered 400
C16_Witness ==
    /\ last.op = "allocate" /\ last.code = 400
    /\ last.target = last.actor /\ last.role = "TRIBE_LEAD"
    /\ last.status \in AllocateStatuses

\* C17: the check of the caller's own delegation reports one as effective
\* exactly when, at its findFirst, a delegation with delegateId = caller,
\* isActive = true and startDate <= now <= endDate exists, both ends included
\* (now: the instant the handler read); an active delegation whose window has
\* not started or has ended is not reported.
C17_EffectiveIffActiveInWindow ==
    [][\A w \in Workers :
         Answers(w, "GetActiveDelegationFindFirst")
            => LET inWindow == {d \in delegations : /\ d.delegateId = pc[w].actor
                                                     /\ d.isActive
                                                     /\ d.startDate <= pc[w].startDate
                                                     /\ pc[w].startDate <= d.endDate}
               IN  /\ last'.code = 200
                   /\ last'.body.hasActiveDelegation <=> inWindow # {}
                   /\ IF inWindow = {} THEN last'.body.delegation = "null"
                                       ELSE last'.body.delegation \in inWindow]_vars

\* the caller's delegation was reported effective at the last instant of its
\* window
C17_Witness ==
    /\ last.op = "activeDelegation" /\ last.code = 200
    /\ last.body.hasActiveDelegation
    /\ last.body.delegation.endDate = last.date
    /\ last.body.delegation.startDate < last.date

\* C18: a delegation is created only for a principal whose role is TRIBE_LEAD
\* and only with startDate < endDate; another principal gets 403, startDate >=
\* endDate gets 400, and every refused request (an unknown delegate included)
\* leaves the registry as it was.
C18_CreateDelegationGuards ==
    (last.op = "createDelegation" /\ last.actor \in DOMAIN users)
        => /\ last.code = 201 => (/\ last.role = "TRIBE_LEAD"
                                  /\ last.date < last.endDate
                                  /\ last.target \in DOMAIN users)
           /\ last.role # "TRIBE_LEAD" => last.code = 403
           /\ (last.role = "TRIBE_LEAD" /\ last.date >= last.endDate)
                 => last.code = 400
           /\ last.target \notin DOMAIN users => last.code # 201
           /\ last.code # 201 => ~last.wrote

\* the Tribe Lead was refused a window with startDate = endDate for a delegate
\* who held an active delegation, which is still active
C18_Witness ==
    /\ last.op = "createDelegation" /\ last.code = 400
    /\ last.role = "TRIBE_LEAD" /\ last.date = last.endDate
    /\ \E d \in delegations : d.delegateId = last.target /\ d.isActive

\* C19: revoking an existing delegation sets its isActive to false and nothing
\* else: the row stays with its delegator, delegate and window, every other row
\* is untouched; revoking an inactive delegation succeeds and changes nothing.
C19_RevokeIsSoftAndIdempotent ==
    [][\A w \in Workers :
         (Answers(w, "RevokeDelegationUpdate")
            /\ \E d \in delegations : d.id = pc[w].rid)
            => /\ last'.code = 200
               /\ delegations' =
                     {IF d.id = pc[w].rid THEN [d EXCEPT !.isActive = FALSE] ELSE d :
                        d \in delegations}
               /\ \A d \in delegations :
                     (d.id = pc[w].rid /\ ~d.isActive)
                        => (delegations' = delegations /\ ~last'.wrote)]_vars

\* an inactive delegation was revoked again, with another delegation stored
C19_Witness ==
    /\ last.op = "revoke" /\ last.code = 200 /\ ~last.wrote
    /\ \E f \in last.found : ~f.isActive
    /\ Cardinality(delegations) = 2

\* C20: however first capacity reads interleave with each other and with
\* capacity updates, the capacity table holds at most one row per weekday.
C20_OneCapacityRowPerWeekday ==
    \A c1 \in capacity, c2 \in capacity : c1.dayOfWeek = c2.dayOfWeek => c1.id = c2.id

\* two first reads ran side by side: one materialized the defaults, the other
\* had seen the empty table too and its createMany was refused
C20_Witness ==
    /\ last.op = "getCapacity" /\ last.code = 500
    /\ Cardinality(capacity) = 5
    /\ \E w \in Workers : pc[w].at = "GetCapacityFindManyAgain"

\* C21: every weekday entry of a capacity read has capacity >= 0, booked = the
\* number of office records of that date, available = max(capacity - booked, 0),
\* isOverbooked = (booked > capacity) and utilizationPercent = booked * 100 /
\* capacity rounded to the nearest integer (half up), 0 when capacity = 0.
C21_WeekOccupancyMath ==
    (last.op = "getCapacity" /\ last.code = 200)
        => \A i \in DOMAIN last.body.weekData :
              LET e == last.body.weekData[i]
                  booked == Cardinality({r \in attendance :
                                           r.date = e.date /\ r.status = "office"})
              IN  /\ e.capacity >= 0
                  /\ e.booked = booked
                  /\ e.available >= 0 /\ e.available >= e.capacity - booked
                  /\ e.available \in {0, e.capacity - booked}
                  /\ e.isOverbooked <=> booked > e.capacity
                  /\ e.capacity = 0 => e.utilizationPercent = 0
                  /\ e.capacity > 0 =>
                        /\ 2 * e.capacity * e.utilizationPercent - e.capacity
                              <= 200 * booked
                        /\ 200 * booked
                              < 2 * e.capacity * e.utilizationPercent + e.capacity

\* C22: an authorized attendance write with status office, through the
\* self-service or the allocate entry point, commits whatever capacity is
\* configured for the weekday and however many office records the date holds.
C22_CapacityNeverGatesWrites ==
    (/\ last.op \in {"upsert", "allocate"}
     /\ last.status = "office"
     /\ last.actor \in DOMAIN users /\ last.target \in DOMAIN users
     /\ HierarchyAllows(last.actor, last.target)
     /\ last.op = "allocate"
           => (last.role # "REPORTER" /\ last.target # last.actor))
        => /\ last.code = 201
           /\ \E r \in attendance :
                 /\ r.userId = last.target /\ r.date = last.date
                 /\ r.status = "office" /\ r \in last.body

\* an office write committed on a Monday whose office records then outnumber
\* the capacity configured for Mondays
C22_Witness ==
    /\ last.op \in {"upsert", "allocate"} /\ last.code = 201
    /\ last.status = "office" /\ getDay(last.date) = 1
    /\ \E c \in capacity :
          /\ c.dayOfWeek = "Monday" /\ c.capacity = 1
          /\ Cardinality({r \in attendance :
                            r.date = last.date /\ r.status = "office"}) = 2

\* C23: a capacity read succeeds only for a principal whose own role is
\* CHAPTER_LEAD or TRIBE_LEAD and a capacity update only for one whose own role
\* is TRIBE_LEAD; a reporter (read) or a principal other than the Tribe Lead
\* (update) gets 403, with or without a currently effective delegation, and a
\* refused update leaves the capacity table as it was.
C23_CapacityAccessByOwnRole ==
    /\ (last.op = "getCapacity" /\ last.actor \in DOMAIN users)
          => /\ last.code = 200 => last.role \in {"CHAPTER_LEAD", "TRIBE_LEAD"}
             /\ last.role = "REPORTER" => last.code = 403
    /\ (last.op = "putCapacity" /\ last.actor \in DOMAIN users)
          => /\ last.code = 200 => last.role = "TRIBE_LEAD"
             /\ last.role # "TRIBE_LEAD" => last.code = 403
             /\ last.code # 200 => ~last.wrote

\* a reporter, holding a currently effective delegation, was refused a
\* capacity update while the table held rows
C23_Witness ==
    /\ last.op = "putCapacity" /\ last.code = 403 /\ last.delegated
    /\ last.role = "REPORTER"
    /\ capacity # {}

C25_NoPrincipalIsRefused ==
    (last.op # "none" /\ last.actor \notin DOMAIN users)
        => (last.code = 401 /\ ~last.wrote)

\* C26: the permission decision and the write are one atomic step: in the
\* state in which a Chapter Lead's attendance write for another user commits,
\* that user's chapterLeadId is the Chapter Lead, whatever role and link
\* changes were made between the request's permission check and its write.
C26_CommitUnderCurrentHierarchy ==
    [][\A w \in Workers :
         ( /\ Answers(w, "PostAttendanceUpsert") \/ Answers(w, "AllocateUpsert")
           /\ last'.code = 201
           /\ pc[w].actor # pc[w].target
           /\ pc[w].actor \in DOMAIN users
           /\ users[pc[w].actor].role = "CHAPTER_LEAD" )
          => users[pc[w].target].chapterLeadId = pc[w].actor]_vars

\* C27: an attendance write, self-service or allocate, that passes the schema
\* and names a target user that does not exist answers 404 for a caller of
\* any role the entry point admits, never 403 and never 500, and creates no
\* record.
C27_MissingTargetIsNotFound ==
    (/\ last.op \in {"upsert", "allocate"}
     /\ last.actor \in DOMAIN users
     /\ last.target \notin DOMAIN users
     /\ last.op = "upsert" => last.status \in SelfStatuses
     /\ last.op = "allocate" => /\ last.status \in AllocateStatuses
                                /\ last.role # "REPORTER")
        => /\ last.code = 404
           /\ \A r \in attendance : r.userId # last.target

\* C28: revoking a delegation id that names no row answers 404, not 500, and
\* leaves the delegation registry unchanged.
C28_RevokeMissingIsNotFound ==
    [][\A w \in Workers :
         (Answers(w, "RevokeDelegationUpdate")
            /\ \A d \in delegations : d.id # pc[w].rid)
          => /\ last'.code = 404
             /\ delegations' = delegations]_vars

\* C29: a capacity read reports for each weekday, Monday to Friday, the
\* configured capacity when a row for the weekday exists and the weekday's
\* default (20, 10, 50, 20, 50) when none does, also when an update configured
\* only some weekdays before the first read.
C29_ReadReportsConfiguredOrDefault ==
    (last.op = "getCapacity" /\ last.code = 200)
        => \A i \in 1..5 :
              LET rows == {c \in last.body.capacitySettings :
                             c.dayOfWeek = dayNames[i]}
              IN  IF rows = {}
                  THEN last.body.weekData[i].capacity = defaultCapacities[i].capacity
                  ELSE \E c \in rows : last.body.weekData[i].capacity = c.capacity

\* C30: a statistics reset by the Tribe Lead empties the attendance ledger,
\* the delegation registry and the capacity table in one step, so that no
\* state holds only some of the three emptied by it, and it leaves the users,
\* their roles and their Chapter-Lead links as they were.
C30_ResetIsOneStep ==
    [][\A w \in Workers :
         Answers(w, "ResetStatisticsTransaction")
          => /\ attendance' = {} /\ delegations' = {} /\ capacity' = {}
             /\ users' = users
             /\ last'.code = 200]_vars

\* the reset ran while a capacity read was between its createMany and its
\* second findMany: the five rows the read had created are gone and the three
\* stores are empty together
C30_Witness ==
    /\ last.op = "reset" /\ last.code = 200
    /\ pc["w1"].at = "GetCapacityFindManyAgain"
    /\ attendance = {} /\ delegations = {} /\ capacity = {}
    /\ users = InitUsers

====
